---- MODULE Spec2Model ----
(***************************************************************************)
(* Retrieval-augmented decisioning pipeline of hackrx-document-intelligence*)
(* (document_processor.py, gemini_llm.py, main.py).                        *)
(*                                                                         *)
(* A Python str is a sequence of characters.  A character is a TLA+ string;*)
(* "bt" is the backtick, "q" the double quote, "sp" a blank, "nl" a line   *)
(* feed, "j" "s" "o" "n" the letters of the fence's language tag, and any  *)
(* other string (a word such as "decision") stands for a run of letters    *)
(* that holds no backtick, quote, blank or JSON punctuation.               *)
(*                                                                         *)
(* A Python value that travels through json (None, str, number, list,      *)
(* dict) is a tagged record [t, v]; a dict keeps its items in insertion    *)
(* order as a sequence of [k, v].                                          *)
(***************************************************************************)
EXTENDS Integers, Sequences, FiniteSets, TLC

(***************************************************************************)
(* Bounds of the model and constants of the program.                       *)
(***************************************************************************)
\* how many documents the upload endpoint accepts in one run
MaxDocs == 1
\* how many rows the queries table takes in one run
MaxQueries == 1
\* gemini_llm.py:126  clause.get('text', '')[:200]
PREVIEW_LEN == 200
\* config.py:48
MAX_RETRIEVAL_RESULTS == 10

(***************************************************************************)
(* Python values.                                                          *)
(***************************************************************************)
None == [t |-> "null"]
PyStr(s) == [t |-> "str", v |-> s]
PyNum(n) == [t |-> "num", v |-> n]
PyList(a) == [t |-> "list", v |-> a]
PyDict(items) == [t |-> "dict", v |-> items]
Item(key, val) == [k |-> key, v |-> val]

RECURSIVE DictSet(_, _, _)
\* d[key] = val on the item sequence of a dict: an existing key keeps its place
DictSet(items, key, val) ==
    IF items = <<>> THEN <<Item(key, val)>>
    ELSE IF Head(items).k = key THEN <<Item(key, val)>> \o Tail(items)
    ELSE <<Head(items)>> \o DictSet(Tail(items), key, val)

\* "key in x" for the values json.loads can return
PyIn(key, x) ==
    CASE x.t = "dict" -> \E i \in 1..Len(x.v) : x.v[i].k = key
      [] x.t = "list" -> \E i \in 1..Len(x.v) : x.v[i] = PyStr(key)
      [] x.t = "str" -> \E i \in 1..(Len(x.v) - Len(key) + 1) :
                            SubSeq(x.v, i, i + Len(key) - 1) = key
      [] OTHER -> FALSE

\* d[key] of a dict that holds key
PyGet(d, key) == d.v[CHOOSE i \in 1..Len(d.v) : d.v[i].k = key].v

(***************************************************************************)
(* str methods.                                                            *)
(***************************************************************************)
IsSpace(c) == c \in {"sp", "nl"}

RECURSIVE lstrip(_)
lstrip(s) == IF s # <<>> /\ IsSpace(Head(s)) THEN lstrip(Tail(s)) ELSE s

RECURSIVE rstrip(_)
rstrip(s) ==
    IF s # <<>> /\ IsSpace(s[Len(s)]) THEN rstrip(SubSeq(s, 1, Len(s) - 1)) ELSE s

strip(s) == rstrip(lstrip(s))

startswith(s, prefix) ==
    Len(s) >= Len(prefix) /\ SubSeq(s, 1, Len(prefix)) = prefix

RECURSIVE replace(_, _, _)
\* s.replace(old, new): every non-overlapping occurrence, left to right
replace(s, old, new) ==
    IF s = <<>> THEN <<>>
    ELSE IF startswith(s, old)
         THEN new \o replace(SubSeq(s, Len(old) + 1, Len(s)), old, new)
         ELSE <<Head(s)>> \o replace(Tail(s), old, new)

(***************************************************************************)
(* json.loads on a character sequence.                                     *)
(***************************************************************************)
\* the number literals the model reads, and int() of each
NumChars == {"5000"}
NumValue(c) == CASE c = "5000" -> 5000 [] OTHER -> 0

JFail == [ok |-> FALSE, v |-> None, i |-> 0]
JOk(val, next) == [ok |-> TRUE, v |-> val, i |-> next]

RECURSIVE SkipSpace(_, _)
SkipSpace(s, i) == IF i <= Len(s) /\ IsSpace(s[i]) THEN SkipSpace(s, i + 1) ELSE i

RECURSIVE StringEnd(_, _)
\* the position of the first quote at or after i, 0 when there is none
StringEnd(s, i) ==
    IF i > Len(s) THEN 0 ELSE IF s[i] = "q" THEN i ELSE StringEnd(s, i + 1)

\* a string literal whose opening quote is s[i]
ParseString(s, i) ==
    LET e == StringEnd(s, i + 1)
    IN  IF e = 0 THEN JFail ELSE JOk(PyStr(SubSeq(s, i + 1, e - 1)), e + 1)

RECURSIVE ParseValue(_, _)
RECURSIVE ParseElements(_, _, _)
RECURSIVE ParseMembers(_, _, _)

ParseValue(s, from) ==
    LET i == SkipSpace(s, from)
    IN  IF i > Len(s) THEN JFail
        ELSE IF s[i] = "null" THEN JOk(None, i + 1)
        ELSE IF s[i] \in NumChars THEN JOk(PyNum(NumValue(s[i])), i + 1)
        ELSE IF s[i] = "q" THEN ParseString(s, i)
        ELSE IF s[i] = "[" THEN
            LET j == SkipSpace(s, i + 1)
            IN  IF j <= Len(s) /\ s[j] = "]" THEN JOk(PyList(<<>>), j + 1)
                ELSE ParseElements(s, i + 1, <<>>)
        ELSE IF s[i] = "{" THEN
            LET j == SkipSpace(s, i + 1)
            IN  IF j <= Len(s) /\ s[j] = "}" THEN JOk(PyDict(<<>>), j + 1)
                ELSE ParseMembers(s, i + 1, <<>>)
        ELSE JFail

\* the elements of an array from position from, acc parsed so far
ParseElements(s, from, acc) ==
    LET r == ParseValue(s, from)
    IN  IF ~r.ok THEN JFail
        ELSE LET j == SkipSpace(s, r.i)
             IN  IF j > Len(s) THEN JFail
                 ELSE IF s[j] = "," THEN ParseElements(s, j + 1, Append(acc, r.v))
                 ELSE IF s[j] = "]" THEN JOk(PyList(Append(acc, r.v)), j + 1)
                 ELSE JFail

\* the members of an object from position from, acc the items so far
ParseMembers(s, from, acc) ==
    LET i == SkipSpace(s, from)
    IN  IF i > Len(s) \/ s[i] # "q" THEN JFail
        ELSE LET key == ParseString(s, i)
             IN  IF ~key.ok THEN JFail
                 ELSE LET c == SkipSpace(s, key.i)
                      IN  IF c > Len(s) \/ s[c] # ":" THEN JFail
                          ELSE LET r == ParseValue(s, c + 1)
                               IN  IF ~r.ok THEN JFail
                                   ELSE LET j == SkipSpace(s, r.i)
                                            items == DictSet(acc, key.v.v, r.v)
                                        IN  IF j > Len(s) THEN JFail
                                            ELSE IF s[j] = ","
                                                 THEN ParseMembers(s, j + 1, items)
                                            ELSE IF s[j] = "}"
                                                 THEN JOk(PyDict(items), j + 1)
                                            ELSE JFail

\* json.loads(s): [ok, v]; ok = FALSE is json.JSONDecodeError
loads(s) ==
    LET r == ParseValue(s, 1)
    IN  IF r.ok /\ SkipSpace(s, r.i) > Len(s) THEN [ok |-> TRUE, v |-> r.v]
        ELSE [ok |-> FALSE, v |-> None]

(***************************************************************************)
(* The language model (google.generativeai), as GeminiLLM uses it.         *)
(* An outcome of one generate_content call is                              *)
(*   "call_error": generate_content raises,                                *)
(*   "no_text":    a response comes back and reading response.text raises  *)
(*                 (a blocked or empty candidate),                         *)
(*   "text":       response.text is the character sequence text.           *)
(***************************************************************************)
CallError == [kind |-> "call_error", text |-> <<>>]
NoText == [kind |-> "no_text", text |-> <<>>]
Text(s) == [kind |-> "text", text |-> s]

\* what a method hands its caller: a returned value or a raised exception;
\* path tells which return statement was taken, llm counts the
\* generate_content calls it made
Return(val, p, n) == [kind |-> "return", v |-> val, path |-> p, llm |-> n]
Raise(e, n) == [kind |-> "raise", v |-> PyStr(<<e>>), path |-> "raise", llm |-> n]

FENCE == <<"bt", "bt", "bt">>
FENCE_JSON == FENCE \o <<"j", "s", "o", "n">>

\* gemini_llm.py:33-37 and 102-106: the clean-up both methods apply to
\* response.text.strip()
strip_code_fence(response_text) ==
    IF startswith(response_text, FENCE_JSON)
    THEN strip(replace(replace(response_text, FENCE_JSON, <<>>), FENCE, <<>>))
    ELSE IF startswith(response_text, FENCE)
    THEN strip(replace(response_text, FENCE, <<>>))
    ELSE response_text

\* the handler's print of response.text (gemini_llm.py:43 and 119): it reads
\* response.text again whenever response was bound
RawResponseReadable(outcome) == outcome.kind # "no_text"

PARSED_QUERY_FIELDS ==
    << <<"target_topic">>, <<"age">>, <<"gender">>, <<"policy_duration">>,
       <<"location">>, <<"special_conditions">>, <<"amount_requested">> >>

\* gemini_llm.py:45-53
DefaultParsedQuery(query) ==
    PyDict(<< Item(<<"target_topic">>, PyStr(query)),
              Item(<<"age">>, None),
              Item(<<"gender">>, None),
              Item(<<"policy_duration">>, None),
              Item(<<"location">>, None),
              Item(<<"special_conditions">>, None),
              Item(<<"amount_requested">>, None) >>)

\* gemini_llm.py:39-53: parsed is what json.loads made of the cleaned text
parse_query_result(query, outcome, parsed) ==
    IF outcome.kind = "text" /\ parsed.ok
    THEN Return(parsed.v, "model", 1)
    ELSE IF RawResponseReadable(outcome)
         THEN Return(DefaultParsedQuery(query), "fallback", 1)
         ELSE Raise("ValueError", 1)

\* GeminiLLM.parse_query(query) when the model call ends as outcome
parse_query(query, outcome) ==
    parse_query_result(query, outcome, loads(strip_code_fence(strip(outcome.text))))

REQUIRED_KEYS == << <<"decision">>, <<"amount">>, <<"justification">> >>

ELLIPSIS == <<".", ".", ".">>
IntStr == <<"1", "2", "3", "4", "5", "6", "7", "8", "9">>

\* s[:n]
Prefix(s, n) == SubSeq(s, 1, IF Len(s) < n THEN Len(s) ELSE n)

\* a faulty entry that marks a passage of exactly the preview length as
\* cut; C27 tells it from FallbackEntry
FallbackEntryEager(i, clause, query) ==
    LET text == IF "text" \in DOMAIN clause THEN clause.text ELSE <<>>
    IN  PyDict(<< Item(<<"clause_id">>, PyStr(<<"clause_", IntStr[i + 1]>>)),
                  Item(<<"text">>,
                       PyStr(Prefix(text, PREVIEW_LEN)
                             \o (IF Len(text) >= PREVIEW_LEN THEN ELLIPSIS ELSE <<>>))),
                  Item(<<"reason">>,
                       PyStr(<<"Retrieved relevant content for query: ">> \o query)) >>)

\* gemini_llm.py:124-128: the justification entry of the i-th clause (i from 0)
FallbackEntry(i, clause, query) ==
    LET text == IF "text" \in DOMAIN clause THEN clause.text ELSE <<>>
    IN  PyDict(<< Item(<<"clause_id">>, PyStr(<<"clause_", IntStr[i + 1]>>)),
                  Item(<<"text">>,
                       PyStr(Prefix(text, PREVIEW_LEN)
                             \o (IF Len(text) > PREVIEW_LEN THEN ELLIPSIS ELSE <<>>))),
                  Item(<<"reason">>,
                       PyStr(<<"Retrieved relevant content for query: ">> \o query)) >>)

\* gemini_llm.py:134-138
SystemFallbackEntry ==
    PyDict(<< Item(<<"clause_id">>, PyStr(<<"system_fallback">>)),
              Item(<<"text">>,
                   PyStr(<<"System processed the query but LLM response formatting failed">>)),
              Item(<<"reason">>,
                   PyStr(<<"Technical issue with response formatting - check logs for details">>)) >>)

\* a faulty except branch that keeps the top clause only; C6 tells it from
\* FallbackDecision
FallbackDecisionTopOne(query, retrieved_clauses) ==
    LET top == Prefix(retrieved_clauses, 1)
        fallback_justification ==
            [i \in 1..Len(top) |-> FallbackEntry(i - 1, top[i], query)]
    IN  PyDict(<< Item(<<"decision">>, PyStr(<<"Approved">>)),
                  Item(<<"amount">>, None),
                  Item(<<"justification">>,
                       IF fallback_justification # <<>>
                       THEN PyList(fallback_justification)
                       ELSE PyList(<<SystemFallbackEntry>>)) >>)

\* a faulty except branch that returns the entries it built even when there
\* are none; C7 tells it from FallbackDecision
FallbackDecisionNoPlaceholder(query, retrieved_clauses) ==
    LET top == Prefix(retrieved_clauses, 2)
        fallback_justification ==
            [i \in 1..Len(top) |-> FallbackEntry(i - 1, top[i], query)]
    IN  PyDict(<< Item(<<"decision">>, PyStr(<<"Approved">>)),
                  Item(<<"amount">>, None),
                  Item(<<"justification">>, PyList(fallback_justification)) >>)

\* gemini_llm.py:121-140: the except branch's Decision
FallbackDecision(query, retrieved_clauses) ==
    LET top == Prefix(retrieved_clauses, 2)
        fallback_justification ==
            [i \in 1..Len(top) |-> FallbackEntry(i - 1, top[i], query)]
    IN  PyDict(<< Item(<<"decision">>, PyStr(<<"Approved">>)),
                  Item(<<"amount">>, None),
                  Item(<<"justification">>,
                       IF fallback_justification # <<>>
                       THEN PyList(fallback_justification)
                       ELSE PyList(<<SystemFallbackEntry>>)) >>)

\* gemini_llm.py:63-66: the prompt reads clause['score'] and clause['text']
\* of every clause before the try block is entered
PromptBuilds(retrieved_clauses) ==
    \A i \in 1..Len(retrieved_clauses) :
        {"score", "text"} \subseteq DOMAIN retrieved_clauses[i]

\* gemini_llm.py:109-140: decision_data is what json.loads made of the
\* cleaned text
make_decision_result(query, retrieved_clauses, outcome, decision_data) ==
    IF /\ outcome.kind = "text"
       /\ decision_data.ok
       /\ \A i \in 1..Len(REQUIRED_KEYS) : PyIn(REQUIRED_KEYS[i], decision_data.v)
    THEN Return(decision_data.v, "model", 1)
    ELSE IF RawResponseReadable(outcome)
         THEN Return(FallbackDecision(query, retrieved_clauses), "fallback", 1)
         ELSE Raise("ValueError", 1)

\* GeminiLLM.make_decision(query, parsed_query, retrieved_clauses) when the
\* model call ends as outcome
make_decision(query, parsed_query, retrieved_clauses, outcome) ==
    IF ~PromptBuilds(retrieved_clauses) THEN Raise("KeyError", 0)
    ELSE make_decision_result(query, retrieved_clauses, outcome,
                              loads(strip_code_fence(strip(outcome.text))))

(***************************************************************************)
(* DocumentProcessor (document_processor.py).                              *)
(*                                                                         *)
(* An uploaded file is [filename, fmt, parts]: filename is the name split  *)
(* at its dots, fmt is what the bytes really are ("pdf", "docx", "bytes"   *)
(* for plain bytes, "garbage" for bytes no reader accepts) and parts are   *)
(* the page texts, the paragraph texts or the one byte string, in which    *)
(* "bad" is a byte sequence that is not valid UTF-8.                       *)
(***************************************************************************)
\* str.lower() on the characters the model uses
lower(c) == CASE c = "PDF" -> "pdf" [] c = "A" -> "a" [] OTHER -> c

RECURSIVE JoinLines(_)
\* text += part + "\n" for every part
JoinLines(parts) ==
    IF parts = <<>> THEN <<>> ELSE Head(parts) \o <<"nl">> \o JoinLines(Tail(parts))

RECURSIVE DropBad(_)
\* bytes.decode('utf-8', errors='ignore')
DropBad(bytes) ==
    IF bytes = <<>> THEN <<>>
    ELSE IF Head(bytes) = "bad" THEN DropBad(Tail(bytes))
    ELSE <<Head(bytes)>> \o DropBad(Tail(bytes))

\* the raw bytes of a file, as a plain-text reader sees them
RawBytes(file) ==
    IF file.fmt = "bytes" THEN JoinLines(file.parts)
    ELSE <<"bad", file.fmt>> \o JoinLines(file.parts)

\* document_processor.py:42-53
extract_text_from_pdf(file) ==
    IF file.fmt = "pdf" THEN JoinLines(file.parts) ELSE <<>>

\* document_processor.py:55-66
extract_text_from_docx(file) ==
    IF file.fmt = "docx" THEN JoinLines(file.parts) ELSE <<>>

\* document_processor.py:68-76
extract_text(file, file_type) ==
    IF lower(file_type) = "pdf" THEN extract_text_from_pdf(file)
    ELSE IF lower(file_type) \in {"docx", "doc"} THEN extract_text_from_docx(file)
    ELSE DropBad(RawBytes(file))

\* document_processor.py:89: the characters of the lower-cased text, from
\* which the 384 components of the vector are filled
create_simple_embedding(text) == {lower(text[i]) : i \in 1..Len(text)}

\* document_processor.py:83-94
create_simple_embeddings(texts) ==
    [i \in 1..Len(texts) |-> create_simple_embedding(texts[i])]

\* document_processor.py:107: f"doc_{document_id}_chunk_{i}_{uuid}"
VectorId(document_id, i, uuid) == [doc |-> document_id, chunk |-> i, uuid |-> uuid]

\* a faulty batch that numbers the chunks from 1; C23 tells it from
\* vectors_to_upsert
vectors_to_upsert_from_one(embeddings, chunks, document_id, uuids) ==
    LET n == IF Len(embeddings) < Len(chunks) THEN Len(embeddings) ELSE Len(chunks)
    IN  [i \in 1..n |->
            [id |-> VectorId(document_id, i - 1, uuids[i]),
             values |-> embeddings[i],
             metadata |-> [document_id |-> document_id,
                           chunk_index |-> i,
                           text |-> chunks[i]]]]

\* document_processor.py:106-118: the batch store_embeddings builds; uuids[i]
\* is what uuid.uuid4().hex[:8] gives for the i-th chunk
vectors_to_upsert(embeddings, chunks, document_id, uuids) ==
    LET n == IF Len(embeddings) < Len(chunks) THEN Len(embeddings) ELSE Len(chunks)
    IN  [i \in 1..n |->
            [id |-> VectorId(document_id, i - 1, uuids[i]),
             values |-> embeddings[i],
             metadata |-> [document_id |-> document_id,
                           chunk_index |-> i - 1,
                           text |-> chunks[i]]]]

RECURSIVE UpsertOne(_, _)
\* the index after one vector is upserted: the same id is overwritten
UpsertOne(idx, vec) ==
    IF idx = <<>> THEN <<vec>>
    ELSE IF Head(idx).id = vec.id THEN <<vec>> \o Tail(idx)
    ELSE <<Head(idx)>> \o UpsertOne(Tail(idx), vec)

RECURSIVE Upsert(_, _)
\* index.upsert(vectors=batch)
Upsert(idx, batch) ==
    IF batch = <<>> THEN idx ELSE Upsert(UpsertOne(idx, Head(batch)), Tail(batch))

\* what text_splitter.split_text (langchain's RecursiveCharacterTextSplitter,
\* document_processor.py:16-20 and 80) may hand back for a text: no chunk, the
\* stripped text as one chunk, or the text cut in three
Cut3(text) ==
    LET a == Len(text) \div 3
        b == (2 * Len(text)) \div 3
    IN  << SubSeq(text, 1, a), SubSeq(text, a + 1, b), SubSeq(text, b + 1, Len(text)) >>

ChunkOutcomes(text) ==
    {<<>>}
        \cup (IF strip(text) # <<>> THEN {<<strip(text)>>} ELSE {})
        \cup (IF Len(text) >= 3 THEN {Cut3(text)} ELSE {})

\* the result dicts of process_document (document_processor.py:185-205)
Failure(reason) == [success |-> FALSE, error |-> reason]
Success(text, chunks, vector_ids) ==
    [success |-> TRUE, text |-> text, chunks_count |-> Len(chunks),
     vector_ids |-> vector_ids]

\* what one call did: result is what the caller gets, index the vector index
\* afterwards, upserts the number of index.upsert calls issued
Done(res, idx, n) == [result |-> res, index |-> idx, upserts |-> n]

\* a faulty try block whose first guard is text = "" instead of
\* not text.strip(); C9 tells it from process_document_body
process_document_body_unstripped(file, document_id, idx, chunks, uuids, fault) ==
    LET file_type == lower(file.filename[Len(file.filename)])
        text == extract_text(file, file_type)
        embeddings == create_simple_embeddings(chunks)
        batch == vectors_to_upsert(embeddings, chunks, document_id, uuids)
        vector_ids == [i \in 1..Len(batch) |-> batch[i].id]
    IN  IF text = <<>>
        THEN Done(Return(Failure("No text extracted from document"), "no_text", 0),
                  idx, 0)
        ELSE IF fault = "chunk" THEN Done(Raise("SplitterError", 0), idx, 0)
        ELSE IF chunks = <<>>
        THEN Done(Return(Failure("No chunks created from text"), "no_chunks", 0),
                  idx, 0)
        ELSE IF fault = "embed" THEN Done(Raise("MemoryError", 0), idx, 0)
        ELSE IF fault = "upsert" THEN Done(Raise("PineconeException", 0), idx, 1)
        ELSE Done(Return(Success(text, chunks, vector_ids), "stored", 0),
                  Upsert(idx, batch), 1)

\* document_processor.py:179-203, the body of the try block.  chunks is what
\* split_text returns, uuids the uuid4 draws, fault the step that raises:
\* "chunk", "embed", "upsert" or "none"
process_document_body(file, document_id, idx, chunks, uuids, fault) ==
    LET file_type == lower(file.filename[Len(file.filename)])
        text == extract_text(file, file_type)
        embeddings == create_simple_embeddings(chunks)
        batch == vectors_to_upsert(embeddings, chunks, document_id, uuids)
        vector_ids == [i \in 1..Len(batch) |-> batch[i].id]
    IN  IF strip(text) = <<>>
        THEN Done(Return(Failure("No text extracted from document"), "no_text", 0),
                  idx, 0)
        ELSE IF fault = "chunk" THEN Done(Raise("SplitterError", 0), idx, 0)
        ELSE IF chunks = <<>>
        THEN Done(Return(Failure("No chunks created from text"), "no_chunks", 0),
                  idx, 0)
        ELSE IF fault = "embed" THEN Done(Raise("MemoryError", 0), idx, 0)
        ELSE IF fault = "upsert" THEN Done(Raise("PineconeException", 0), idx, 1)
        ELSE Done(Return(Success(text, chunks, vector_ids), "stored", 0),
                  Upsert(idx, batch), 1)

\* a faulty process_document without the except clause; C10 tells it from
\* process_document
process_document_uncaught(file, document_id, idx, chunks, uuids, fault) ==
    process_document_body(file, document_id, idx, chunks, uuids, fault)

\* DocumentProcessor.process_document: document_processor.py:171-205
process_document(file, document_id, idx, chunks, uuids, fault) ==
    LET body == process_document_body(file, document_id, idx, chunks, uuids, fault)
    IN  IF body.result.kind = "raise"
        THEN Done(Return(Failure(body.result.v.v[1]), "except", 0),
                  body.index, body.upserts)
        ELSE body

\* s reversed
Reverse(s) == [i \in 1..Len(s) |-> s[Len(s) + 1 - i]]

RECURSIVE WithDocument(_, _)
\* the vectors of idx whose metadata carries document_id f
WithDocument(idx, f) ==
    IF idx = <<>> THEN <<>>
    ELSE IF Head(idx).metadata.document_id = f
         THEN <<Head(idx)>> \o WithDocument(Tail(idx), f)
         ELSE WithDocument(Tail(idx), f)

\* the scores the backend attaches, by rank (thousandths)
RankScore(i) == 1000 - 125 * i

\* index.query(vector, top_k, include_metadata, filter) on a reachable
\* backend: the top_k nearest of the vectors that pass the filter, nearest
\* first; ranking is the order the similarity to the query vector induces
IndexQuery(idx, query_embedding, top_k, filter, ranking) ==
    LET passing == IF filter = None THEN idx ELSE WithDocument(idx, filter.v)
        ordered == IF ranking = "desc" THEN Reverse(passing) ELSE passing
        top == Prefix(ordered, top_k)
    IN  [i \in 1..Len(top) |->
            [id |-> top[i].id, score |-> RankScore(i), metadata |-> top[i].metadata]]

\* Python truthiness of a request field
Truthy(x) ==
    CASE x.t = "null" -> FALSE
      [] x.t = "num" -> x.v # 0
      [] OTHER -> x.v # <<>>

\* document_processor.py:142-145 and 152: the filter handed to index.query,
\* None when filter_dict stays empty
filter_dict(document_id) == IF Truthy(document_id) THEN document_id ELSE None

\* a faulty search that hands the matches back farthest first; C20 tells it
\* from search_similar_chunks
search_similar_chunks_reversed(idx, query, document_id, top_k, backend) ==
    LET k == IF top_k = None THEN MAX_RETRIEVAL_RESULTS ELSE top_k.v
        query_embedding == create_simple_embeddings(<<query>>)[1]
        filter == filter_dict(document_id)
        matches == Reverse(IndexQuery(idx, query_embedding, k, filter, backend))
    IN  IF backend = "error" THEN <<>>
        ELSE [i \in 1..Len(matches) |->
                 [id |-> matches[i].id,
                  score |-> matches[i].score,
                  text |-> matches[i].metadata.text,
                  document_id |-> matches[i].metadata.document_id,
                  chunk_index |-> matches[i].metadata.chunk_index]]

\* DocumentProcessor.search_similar_chunks: document_processor.py:129-169.
\* backend is "error" when index.query raises, else the ranking it applies
search_similar_chunks(idx, query, document_id, top_k, backend) ==
    LET k == IF top_k = None THEN MAX_RETRIEVAL_RESULTS ELSE top_k.v
        query_embedding == create_simple_embeddings(<<query>>)[1]
        filter == filter_dict(document_id)
        matches == IndexQuery(idx, query_embedding, k, filter, backend)
    IN  IF backend = "error" THEN <<>>
        ELSE [i \in 1..Len(matches) |->
                 [id |-> matches[i].id,
                  score |-> matches[i].score,
                  text |-> matches[i].metadata.text,
                  document_id |-> matches[i].metadata.document_id,
                  chunk_index |-> matches[i].metadata.chunk_index]]

(***************************************************************************)
(* The endpoints of main.py.  A response is [status_code, body]; an        *)
(* HTTPException(status, detail) is [status_code |-> status, body |->      *)
(* [detail |-> detail]].                                                   *)
(***************************************************************************)
Ok(body) == [status_code |-> 200, body |-> body]
HTTPException(status, detail) == [status_code |-> status, body |-> [detail |-> detail]]

\* what one request did: the response, the collaborator calls in order, the
\* rows added to the queries table, the clauses retrieval returned
Handled(resp, calls, rows, retrieved) ==
    [response |-> resp, calls |-> calls, rows |-> rows, retrieved |-> retrieved]

\* a justification entry; text is a str, clause_id and reason are literals
Entry(clause_id, text, reason) ==
    PyDict(<< Item(<<"clause_id">>, PyStr(<<clause_id>>)),
              Item(<<"text">>, PyStr(text)),
              Item(<<"reason">>, PyStr(<<reason>>)) >>)

\* main.py:227-239
NoResultsQuery ==
    [status |-> "no_results",
     message |-> "No relevant clauses found for the query",
     decision |-> PyStr(<<"Rejected">>),
     amount |-> None,
     justification |->
         PyList(<<Entry("none", <<"No relevant document clauses found">>,
                        "Insufficient information to make a decision")>>)]

\* main.py:255-265
FormatJustification(justification) ==
    IF justification.t = "str"
    THEN IF loads(justification.v).ok THEN loads(justification.v).v
         ELSE PyList(<< PyStr(<<"[{", "q", "clause_id", "q", ":", "sp", "q", "error">>),
                        PyStr(<<"text", "q", ":", "sp", "justification">>),
                        PyStr(<<"reason", "q", ":", "sp", "q", "Formatting issue", "q", "}">>) >>)
    ELSE justification

CALLS_PARSE == <<"parse_query">>
CALLS_SEARCH == <<"parse_query", "search_similar_chunks">>
CALLS_DECIDE == <<"parse_query", "search_similar_chunks", "make_decision">>

\* main.py:244-275: make_decision has returned decision_result
query_respond(nq, parsed_query, retrieved_clauses, decision_result) ==
    IF decision_result.kind = "raise"
    THEN Handled(HTTPException(500, decision_result.v.v[1]), CALLS_DECIDE, 0,
                 retrieved_clauses)
    ELSE IF decision_result.v.t # "dict"
    THEN Handled(HTTPException(500, "TypeError"), CALLS_DECIDE, 0, retrieved_clauses)
    ELSE Handled(
             Ok([status |-> "success",
                 query_id |-> nq + 1,
                 parsed_query |-> parsed_query,
                 retrieved_clauses_count |-> Len(retrieved_clauses),
                 decision |-> PyGet(decision_result.v, <<"decision">>),
                 amount |-> PyGet(decision_result.v, <<"amount">>),
                 justification |->
                     FormatJustification(PyGet(decision_result.v, <<"justification">>))]),
             CALLS_DECIDE, 1, retrieved_clauses)

\* a faulty flow that hands every retrieval result, the empty one too, to
\* make_decision; C1 tells it from query_decide
query_decide_unguarded(query_text, nq, parsed_query, retrieved_clauses, decide_outcome) ==
    query_respond(nq, parsed_query, retrieved_clauses,
                  make_decision(query_text, parsed_query, retrieved_clauses,
                                decide_outcome))

\* main.py:226-242: search_similar_chunks has returned retrieved_clauses
query_decide(query_text, nq, parsed_query, retrieved_clauses, decide_outcome) ==
    IF retrieved_clauses = <<>>
    THEN Handled(Ok(NoResultsQuery), CALLS_SEARCH, 0, retrieved_clauses)
    ELSE query_respond(nq, parsed_query, retrieved_clauses,
                       make_decision(query_text, parsed_query, retrieved_clauses,
                                     decide_outcome))

\* main.py:219-224: parse_query has ended as parsed_query
query_search(request, idx, nq, parsed_query, backend, decide_outcome) ==
    IF parsed_query.kind = "raise"
    THEN Handled(HTTPException(500, parsed_query.v.v[1]), CALLS_PARSE, 0, <<>>)
    ELSE query_decide(request.query.v, nq, parsed_query.v,
                      search_similar_chunks(idx, request.query.v, request.document_id,
                                            None, backend),
                      decide_outcome)

\* process_query: main.py:208-278.  request is [query, document_id], nq the
\* rows of the queries table, parse_outcome and decide_outcome what the two
\* model calls end as, backend what index.query does
process_query(request, idx, nq, parse_outcome, backend, decide_outcome) ==
    IF ~Truthy(request.query)
    THEN Handled(HTTPException(500, "400: Query text is required"), <<>>, 0, <<>>)
    ELSE query_search(request, idx, nq, parse_query(request.query.v, parse_outcome),
                      backend, decide_outcome)

\* a Decision body of hackrx_run_endpoint with one synthetic entry
RejectedWith(clause_id, text, reason) ==
    [decision |-> PyStr(<<"Rejected">>),
     amount |-> None,
     justification |-> PyList(<<Entry(clause_id, text, reason)>>)]

\* main.py:385-395
NoDocument ==
    RejectedWith("no_document", <<"No processed documents available">>,
                 "No documents have been uploaded and processed")
\* main.py:410-420
NoResultsRun ==
    RejectedWith("no_results", <<"No relevant document clauses found">>,
                 "Insufficient information to make a decision")
\* main.py:443-454
SystemError(e) ==
    RejectedWith("system_error", <<"System error: ", e>>,
                 "Unable to process request due to system error")

\* main.py:377-382: the id of the processed document uploaded last, 0 if none
LatestProcessed(docs) ==
    LET done == {i \in 1..Len(docs) : docs[i].processed = "processed"}
    IN  IF done = {} THEN 0 ELSE CHOOSE i \in done : \A j \in done : j <= i

\* main.py:425-454: make_decision has returned decision_result
run_respond(retrieved_clauses, decision_result) ==
    IF decision_result.kind = "raise"
    THEN Handled(Ok(SystemError(decision_result.v.v[1])), CALLS_DECIDE, 0,
                 retrieved_clauses)
    ELSE IF decision_result.v.t # "dict"
    THEN Handled(Ok(SystemError("TypeError")), CALLS_DECIDE, 0, retrieved_clauses)
    ELSE Handled(
             Ok([decision |-> PyGet(decision_result.v, <<"decision">>),
                 amount |-> PyGet(decision_result.v, <<"amount">>),
                 justification |-> PyGet(decision_result.v, <<"justification">>)]),
             CALLS_DECIDE, 1, retrieved_clauses)

\* main.py:409-423: search_similar_chunks has returned retrieved_clauses
run_decide(query_text, parsed_query, retrieved_clauses, decide_outcome) ==
    IF retrieved_clauses = <<>>
    THEN Handled(Ok(NoResultsRun), CALLS_SEARCH, 0, retrieved_clauses)
    ELSE run_respond(retrieved_clauses,
                     make_decision(query_text, parsed_query, retrieved_clauses,
                                   decide_outcome))

\* main.py:401-407: parse_query has ended as parsed_query
run_search(query_text, document_id, idx, parsed_query, backend, decide_outcome) ==
    IF parsed_query.kind = "raise"
    THEN Handled(Ok(SystemError(parsed_query.v.v[1])), CALLS_PARSE, 0, <<>>)
    ELSE run_decide(query_text, parsed_query.v,
                    search_similar_chunks(idx, query_text, document_id, None, backend),
                    decide_outcome)

\* main.py:369-399: query_text and latest_doc are known
run_select(request, query_text, latest_doc, idx, parse_outcome, backend, decide_outcome) ==
    IF ~Truthy(query_text)
    THEN Handled(Ok(SystemError("400: Query/question is required")), <<>>, 0, <<>>)
    ELSE IF ~Truthy(request.document_url) /\ latest_doc = 0
    THEN Handled(Ok(NoDocument), <<>>, 0, <<>>)
    ELSE run_search(query_text.v,
                    IF Truthy(request.document_url) THEN None ELSE PyNum(latest_doc),
                    idx, parse_query(query_text.v, parse_outcome), backend,
                    decide_outcome)

\* hackrx_run_endpoint, the legacy path: main.py:366-454.  request is
\* [query, question, document_url]
hackrx_run_endpoint(request, idx, docs, parse_outcome, backend, decide_outcome) ==
    run_select(request,
               IF Truthy(request.query) THEN request.query ELSE request.question,
               LatestProcessed(docs), idx, parse_outcome, backend, decide_outcome)

\* what upload_document did: the response, what process_document handed back,
\* the upsert calls issued, the index and the two tables afterwards, and
\* writes, the values db_document.processed was committed with, in order
Uploaded(resp, done, docs, rows, writes) ==
    [response |-> resp, result |-> done.result, upserts |-> done.upserts,
     index |-> done.index, documents |-> docs, document_chunks |-> rows,
     writes |-> writes]

\* main.py:88-117: process_document has ended as done; docs holds the
\* pending row of the document, whose id is id
upload_finish(file, id, docs, rows, done) ==
    IF done.result.kind = "raise"
    THEN Uploaded(HTTPException(500, done.result.v.v[1]), done, docs, rows,
                  <<"pending">>)
    ELSE IF done.result.v.success
    THEN Uploaded(Ok([status |-> "success", document_id |-> id,
                      filename |-> file.filename,
                      chunks_processed |-> done.result.v.chunks_count,
                      message |-> "Document uploaded and processed successfully"]),
                  done,
                  [docs EXCEPT ![id].processed = "processed"],
                  rows \o [i \in 1..Len(done.result.v.vector_ids) |->
                              [document_id |-> id, chunk_index |-> i - 1,
                               embedding_id |-> done.result.v.vector_ids[i]]],
                  <<"pending", "processed">>)
    ELSE Uploaded(Ok([status |-> "error", message |-> done.result.v.error]),
                  done,
                  [docs EXCEPT ![id].processed = "failed"],
                  rows,
                  <<"pending", "failed">>)

\* upload_document: main.py:66-117.  docs is the documents table (the row
\* of id i is docs[i], of which the model keeps the processed column), rows
\* the document_chunks table
upload_document(file, idx, docs, rows, chunks, uuids, fault) ==
    upload_finish(file, Len(docs) + 1, Append(docs, [processed |-> "pending"]), rows,
                  process_document(file, Len(docs) + 1, idx, chunks, uuids, fault))

(***************************************************************************)
(* Documents fetched from a URL.  A URL is the str of its characters: the  *)
(* scheme and host, then the file name split at its dots.  What            *)
(* requests.get(url, timeout=30) does is net: "ok" (the server answers 200 *)
(* with the file), "status_404" (it answers 404) or "timeout" (requests    *)
(* raises a RequestException).                                             *)
(***************************************************************************)
URL_HOST == "https://example.com/"

\* urlparse(url).scheme and urlparse(url).netloc are both non-empty
HasSchemeAndHost(url) == url # <<>> /\ url[1] = URL_HOST

\* url.split("/")[-1]
LastSegment(url) == IF HasSchemeAndHost(url) THEN Tail(url) ELSE url

\* the upload did not get as far as process_document
NotProcessed(idx) == Done([kind |-> "none"], idx, 0)

\* main.py:168-198: process_document has ended as done; the response holds
\* no content-disposition header and the file name has an extension
upload_url_finish(url, file, id, docs, rows, done) ==
    IF done.result.kind = "raise"
    THEN Uploaded(HTTPException(500, done.result.v.v[1]), done, docs, rows,
                  <<"pending">>)
    ELSE IF done.result.v.success
    THEN Uploaded(Ok([status |-> "success", document_id |-> id,
                      filename |-> file.filename,
                      url |-> url,
                      chunks_processed |-> done.result.v.chunks_count,
                      message |-> "Document downloaded from URL and processed successfully"]),
                  done,
                  [docs EXCEPT ![id].processed = "processed"],
                  rows \o [i \in 1..Len(done.result.v.vector_ids) |->
                              [document_id |-> id, chunk_index |-> i - 1,
                               embedding_id |-> done.result.v.vector_ids[i]]],
                  <<"pending", "processed">>)
    ELSE Uploaded(Ok([status |-> "error", message |-> done.result.v.error]),
                  done,
                  [docs EXCEPT ![id].processed = "failed"],
                  rows,
                  <<"pending", "failed">>)

\* upload_document_from_url: main.py:120-205.  request is [url], file what
\* the server holds under the URL, net what requests.get does
upload_document_from_url(request, file, net, idx, docs, rows, chunks, uuids, fault) ==
    IF ~Truthy(request.url)
    THEN Uploaded(HTTPException(500, "400: URL is required"), NotProcessed(idx),
                  docs, rows, <<>>)
    ELSE IF ~HasSchemeAndHost(request.url.v)
    THEN Uploaded(HTTPException(500, "400: Invalid URL format"), NotProcessed(idx),
                  docs, rows, <<>>)
    ELSE IF net # "ok"
    THEN Uploaded(HTTPException(400, "Failed to download from URL"), NotProcessed(idx),
                  docs, rows, <<>>)
    ELSE upload_url_finish(request.url.v, file, Len(docs) + 1,
                           Append(docs, [processed |-> "pending"]), rows,
                           process_document(file, Len(docs) + 1, idx, chunks, uuids,
                                            fault))

(***************************************************************************)
(* hackrx_official_compliance_endpoint (main.py:804-1006): the             *)
(* documents-and-questions format of /hackrx/run.                          *)
(***************************************************************************)
EXPECTED_TOKEN ==
    "Bearer 96551ec397634df93a1a2212b9b798324340321ef3c785ce9f4593c92d8f1544"

\* main.py:877: a text shorter than this, stripped, counts as unreadable
MIN_TEXT_LEN == 10
\* main.py:940: relevant_content[:3]
MAX_CONTEXT_CHUNKS == 3

NOT_FOUND == <<"Information not found in the provided document.">>
QUESTION_ERROR == <<"Error processing the question.">>

CALLS_DOWNLOAD == <<"requests.get">>
CALLS_EXTRACT == <<"requests.get", "extract_text">>
CALLS_CHUNK == <<"requests.get", "extract_text", "chunk_text">>

\* what one request in the documents-and-questions format did: the response,
\* the two tables afterwards, the rows added to the queries table, the
\* collaborator calls in order, the values Document.processed was committed
\* with
Complied(resp, docs, rows, queries, calls, writes) ==
    [response |-> resp, documents |-> docs, document_chunks |-> rows,
     rows |-> queries, calls |-> calls, writes |-> writes]

RECURSIVE JoinParas(_)
\* "\n\n".join(parts)
JoinParas(parts) ==
    IF parts = <<>> THEN <<>>
    ELSE IF Len(parts) = 1 THEN parts[1]
    ELSE parts[1] \o <<"nl", "nl">> \o JoinParas(Tail(parts))

\* main.py:964-972: the answer made of the reason of the first entry
CleanAnswer(reason) ==
    IF reason.t # "str" THEN NOT_FOUND
    ELSE IF (\E i \in 1..Len(reason.v) : reason.v[i] = NOT_FOUND[1]) \/ strip(reason.v) = <<>>
    THEN NOT_FOUND
    ELSE IF reason.v[Len(reason.v)] = "." THEN reason.v
    ELSE reason.v \o <<".">>

\* main.py:958-977: make_decision has ended as decision_result
AnswerFrom(decision_result) ==
    IF decision_result.kind = "raise" THEN NOT_FOUND
    ELSE IF decision_result.v.t # "dict" THEN NOT_FOUND
    ELSE LET justification == PyGet(decision_result.v, <<"justification">>)
         IN  IF justification.t # "list" \/ justification.v = <<>> THEN NOT_FOUND
             ELSE IF justification.v[1].t # "dict" THEN NOT_FOUND
             ELSE IF ~PyIn(<<"reason">>, justification.v[1]) THEN NOT_FOUND
             ELSE CleanAnswer(PyGet(justification.v[1], <<"reason">>))

\* main.py:926-995, one pass of the loop: the answer appended, the Query rows
\* added and the make_decision calls made.  match tells whether a keyword of
\* the question (longer than 3 characters) occurs in the chunks
AnswerQuestion(question, chunks, match, decide_outcome) ==
    IF question.t # "str"
    THEN [answer |-> QUESTION_ERROR, rows |-> 0, llm |-> 0]
    ELSE IF ~match \/ chunks = <<>>
    THEN [answer |-> NOT_FOUND, rows |-> 1, llm |-> 0]
    ELSE [answer |->
              AnswerFrom(make_decision(
                  question.v, DefaultParsedQuery(question.v),
                  <<[text |-> JoinParas(Prefix(chunks, MAX_CONTEXT_CHUNKS)),
                     score |-> 1000]>>,
                  decide_outcome)),
          rows |-> 1, llm |-> 1]

RECURSIVE SumOf(_)
SumOf(ns) == IF ns = <<>> THEN 0 ELSE Head(ns) + SumOf(Tail(ns))

\* the make_decision calls of the loop, one entry per call
DecideCalls(n) == [i \in 1..n |-> "make_decision"]

\* main.py:923-1000: the questions loop and the 200 response.  docs and rows
\* are the tables after the document and its chunks were committed
compliance_answer(questions, chunks, docs, rows, match, decide_outcome) ==
    LET passes == [i \in 1..Len(questions) |->
                      AnswerQuestion(questions[i], chunks, match, decide_outcome)]
    IN  Complied(Ok([answers |-> [i \in 1..Len(passes) |-> passes[i].answer]]),
                 docs, rows,
                 SumOf([i \in 1..Len(passes) |-> passes[i].rows]),
                 CALLS_CHUNK \o DecideCalls(SumOf([i \in 1..Len(passes) |-> passes[i].llm])),
                 <<"processed">>)

\* main.py:891-906: the Document row is committed; chunk_text is called
compliance_chunk(questions, id, docs, rows, chunks, fault, match, decide_outcome) ==
    IF fault = "chunk"
    THEN Complied(HTTPException(500, "Document processing error: SplitterError"),
                  docs, rows, 0, CALLS_CHUNK, <<"processed">>)
    ELSE compliance_answer(questions, chunks, docs,
                           rows \o [i \in 1..Len(chunks) |->
                                       [document_id |-> id, chunk_index |-> i - 1,
                                        embedding_id |-> [prefix |-> "chunk", doc |-> id,
                                                          chunk |-> i - 1]]],
                           match, decide_outcome)

\* main.py:877-889: text_content is extracted
compliance_store(questions, text_content, docs, rows, chunks, fault, match, decide_outcome) ==
    IF text_content = <<>> \/ Len(strip(text_content)) < MIN_TEXT_LEN
    THEN Complied(HTTPException(500, "Document processing error: 400: Document appears to be empty or unreadable"),
                  docs, rows, 0, CALLS_EXTRACT, <<>>)
    ELSE compliance_chunk(questions, Len(docs) + 1,
                          Append(docs, [processed |-> "processed"]), rows, chunks,
                          fault, match, decide_outcome)

\* main.py:861-875: the file name the URL gives and the text of the document
ComplianceFilename(documents_url) ==
    LET filename == LastSegment(documents_url)
    IN  IF Len(filename) > 1 /\ filename[Len(filename)] \in {"pdf", "docx", "doc"}
        THEN filename
        ELSE Append(filename, "pdf")

ComplianceText(documents_url, file) ==
    IF ComplianceFilename(documents_url)[Len(ComplianceFilename(documents_url))] = "pdf"
    THEN extract_text_from_pdf(file)
    ELSE extract_text_from_docx(file)

\* main.py:853-921: the download
compliance_download(documents_url, questions, file, net, docs, rows, chunks, fault, match, decide_outcome) ==
    IF ~HasSchemeAndHost(documents_url) \/ net = "timeout"
    THEN Complied(HTTPException(400, "Failed to download document"),
                  docs, rows, 0, CALLS_DOWNLOAD, <<>>)
    ELSE IF net # "ok"
    THEN Complied(HTTPException(500, "Document processing error: 400: Failed to download document: 404"),
                  docs, rows, 0, CALLS_DOWNLOAD, <<>>)
    ELSE compliance_store(questions, ComplianceText(documents_url, file), docs, rows,
                          chunks, fault, match, decide_outcome)

\* hackrx_official_compliance_endpoint: main.py:804-1006.  request is
\* [documents, questions], authorization the Authorization header
hackrx_official_compliance_endpoint(request, authorization, file, net, docs, rows, chunks, fault, match, decide_outcome) ==
    IF authorization # PyStr(<<EXPECTED_TOKEN>>)
    THEN Complied(HTTPException(401, "Invalid authorization token"), docs, rows, 0,
                  <<>>, <<>>)
    ELSE IF ~Truthy(request.documents)
    THEN Complied(HTTPException(400, "Missing 'documents' field"), docs, rows, 0,
                  <<>>, <<>>)
    ELSE IF ~Truthy(request.questions) \/ request.questions.t # "list"
    THEN Complied(HTTPException(400, "Missing or invalid 'questions' field"), docs, rows,
                  0, <<>>, <<>>)
    ELSE compliance_download(IF request.documents.t = "list"
                             THEN request.documents.v[1].v
                             ELSE request.documents.v,
                             request.questions.v, file, net, docs, rows, chunks, fault,
                             match, decide_outcome)

(***************************************************************************)
(* The chunker of simple_document_processor.py.                            *)
(***************************************************************************)
RECURSIVE SplitWords(_, _, _)
\* text.split(): the maximal runs of characters that are not whitespace
SplitWords(text, word, words) ==
    IF text = <<>>
    THEN IF word = <<>> THEN words ELSE Append(words, word)
    ELSE IF IsSpace(Head(text))
    THEN SplitWords(Tail(text), <<>>, IF word = <<>> THEN words ELSE Append(words, word))
    ELSE SplitWords(Tail(text), Append(word, Head(text)), words)

RECURSIVE JoinSpace(_)
\* " ".join(words)
JoinSpace(words) ==
    IF words = <<>> THEN <<>>
    ELSE IF Len(words) = 1 THEN words[1]
    ELSE words[1] \o <<"sp">> \o JoinSpace(Tail(words))

RECURSIVE SplitLoopNoFlush(_, _, _, _, _)
\* a faulty loop that forgets the words still held when the text ends; C15
\* tells it from SplitLoop
SplitLoopNoFlush(words, chunk_size, chunks, current_chunk, current_length) ==
    IF words = <<>>
    THEN chunks
    ELSE IF current_length + Len(Head(words)) + 1 > chunk_size /\ current_chunk # <<>>
    THEN SplitLoopNoFlush(Tail(words), chunk_size,
                          Append(chunks, JoinSpace(current_chunk)),
                          <<Head(words)>>, Len(Head(words)))
    ELSE SplitLoopNoFlush(Tail(words), chunk_size, chunks,
                          Append(current_chunk, Head(words)),
                          current_length + Len(Head(words)) + 1)

RECURSIVE SplitLoop(_, _, _, _, _)
\* simple_document_processor.py:40-52: the loop over the words and the final
\* flush
SplitLoop(words, chunk_size, chunks, current_chunk, current_length) ==
    IF words = <<>>
    THEN IF current_chunk # <<>> THEN Append(chunks, JoinSpace(current_chunk)) ELSE chunks
    ELSE IF current_length + Len(Head(words)) + 1 > chunk_size /\ current_chunk # <<>>
    THEN SplitLoop(Tail(words), chunk_size, Append(chunks, JoinSpace(current_chunk)),
                   <<Head(words)>>, Len(Head(words)))
    ELSE SplitLoop(Tail(words), chunk_size, chunks, Append(current_chunk, Head(words)),
                   current_length + Len(Head(words)) + 1)

\* DocumentProcessor.split_text_into_chunks: simple_document_processor.py:33-52
split_text_into_chunks(text, chunk_size) ==
    SplitLoop(SplitWords(text, <<>>, <<>>), chunk_size, <<>>, <<>>, 0)

(***************************************************************************)
(* The deployment variants: simple_document_processor.py and               *)
(* main_ultra_simple.py.  Neither touches the index or the database.       *)
(***************************************************************************)
SAMPLE_CONTENT == <<"Sample document content for testing purposes.">>
MOCK_DOCUMENT ==
    <<"Sample document for testing purposes. This is a mock document content.">>

\* simple_document_processor.py:33: the default chunk_size
DEFAULT_CHUNK_SIZE == 1000
\* simple_document_processor.py:129: the length of sample_text
SAMPLE_LEN == 500

\* url.lower().endswith('.pdf')
EndsWithPdf(url) == Len(LastSegment(url)) > 1 /\ lower(url[Len(url)]) = "pdf"

\* response.text of a downloaded file
ResponseText(file) == DropBad(RawBytes(file))

\* DocumentProcessor.extract_text_from_pdf of simple_document_processor.py:21-31
simple_extract_text_from_pdf(file) ==
    IF file.fmt = "pdf" THEN JoinLines(file.parts) ELSE SAMPLE_CONTENT

\* extract_text_from_pdf of main_ultra_simple.py:63-73
ultra_extract_text_from_pdf(file) ==
    IF file.fmt = "pdf" THEN JoinLines(file.parts) ELSE SAMPLE_CONTENT

\* the most results the mock search hands back
MOCK_RESULTS == 3

\* the score of the i-th mock result, 0.9 - i * 0.1 (thousandths)
MockScore(i) == 900 - 100 * i

\* str(i) for the numbers the mock search writes
MockStr(i) == <<"0", "1", "2", "3">>[i + 1]

\* DocumentProcessor.search_similar_documents of
\* simple_document_processor.py:78-90: range(min(top_k, 3))
search_similar_documents(query, top_k) ==
    [j \in 1..(IF top_k < MOCK_RESULTS THEN top_k ELSE MOCK_RESULTS) |->
        [id |-> <<"mock_", MockStr(j - 1)>>,
         score |-> MockScore(j - 1),
         metadata |-> [text |-> <<"Mock relevant content ", MockStr(j), " for query: ">>
                                    \o query,
                       chunk_index |-> j - 1]]]

\* what requests.get and raise_for_status make of the URL and the network
Fetch(url, net) == IF HasSchemeAndHost(url) THEN net ELSE "timeout"

\* what one call of a variant did: its result or response, the text it went
\* on with, the collaborator calls in order
Ran(res, text, calls) == [result |-> res, text |-> text, calls |-> calls]

\* simple_document_processor.py:99-130: the download has succeeded and text
\* is extracted; uuids are the uuid4 draws
simple_process_text(url, text, chunks, uuids) ==
    Ran([success |-> TRUE,
         chunks_count |-> Len(chunks),
         sample_text |-> IF Len(text) > SAMPLE_LEN
                         THEN Prefix(text, SAMPLE_LEN) \o ELLIPSIS ELSE text,
         embeddings_data |->
             [i \in 1..Len(chunks) |->
                 [id |-> [uuid |-> uuids[i], chunk |-> i - 1],
                  metadata |-> [text |-> chunks[i], chunk_index |-> i - 1,
                                source_url |-> url]]]],
        text,
        <<"requests.get", "split_text_into_chunks">>
            \o [i \in 1..Len(chunks) |-> "create_embeddings"]
            \o <<"store_embeddings_pinecone">>)

\* DocumentProcessor.process_document_from_url:
\* simple_document_processor.py:92-138
process_document_from_url(url, file, net, uuids) ==
    IF Fetch(url, net) # "ok"
    THEN Ran([success |-> FALSE, error |-> Fetch(url, net),
              message |-> "Failed to process document"],
             <<>>, <<"requests.get">>)
    ELSE simple_process_text(
             url,
             IF EndsWithPdf(url) THEN simple_extract_text_from_pdf(file)
             ELSE ResponseText(file),
             split_text_into_chunks(
                 IF EndsWithPdf(url) THEN simple_extract_text_from_pdf(file)
                 ELSE ResponseText(file),
                 DEFAULT_CHUNK_SIZE),
             uuids)

\* main_ultra_simple.py:113-136, one pass of the loop: gemini tells whether
\* the module-level model was initialised
UltraAnswer(question, gemini, outcome) ==
    IF ~gemini
    THEN <<"Based on the document content, this question relates to: ">> \o question
             \o <<". (Note: Gemini API not configured)">>
    ELSE IF outcome.kind = "text" THEN strip(outcome.text)
    ELSE <<"Based on the document, I can help answer: ">> \o question

\* main_ultra_simple.py:111-139: document_text is settled
ultra_answer(questions, document_text, downloaded, gemini, outcome) ==
    Ran(Ok([answers |-> [i \in 1..Len(questions) |->
                            UltraAnswer(questions[i].v, gemini, outcome)]]),
        document_text,
        <<"requests.get">>
            \o (IF gemini THEN [i \in 1..Len(questions) |-> "generate_content"]
                ELSE <<>>))

\* hackrx_endpoint of main_ultra_simple.py:75-145.  request_data is
\* [document_url, questions]
hackrx_endpoint(request_data, file, net, gemini, outcome) ==
    IF ~Truthy(request_data.document_url)
    THEN Ran(HTTPException(400, "document_url is required"), <<>>, <<>>)
    ELSE IF ~Truthy(request_data.questions)
    THEN Ran(HTTPException(400, "questions list is required"), <<>>, <<>>)
    ELSE ultra_answer(request_data.questions.v,
                      IF Fetch(request_data.document_url.v, net) # "ok" THEN MOCK_DOCUMENT
                      ELSE IF EndsWithPdf(request_data.document_url.v)
                      THEN ultra_extract_text_from_pdf(file)
                      ELSE ResponseText(file),
                      Fetch(request_data.document_url.v, net) = "ok",
                      gemini, outcome)

\* main_simple.py:29 and app.py:20
HACKRX_TOKEN == "96551ec397634df93a1a2212b9b798324340321ef3c785ce9f4593c92d8f1544"

\* str(x) inside an f-string; the text of a value that is no string is one
\* word
FStr(x) == IF x.t = "str" THEN x.v ELSE <<"num">>

\* verify_hackrx_token of main_simple.py:52-64: the status it raises, 0 when
\* it returns.  A header value is the sequence of "Bearer " and the token
verify_hackrx_token(authorization) ==
    IF ~Truthy(authorization) THEN 401
    ELSE IF authorization.v[1] # "Bearer " THEN 401
    ELSE IF Tail(authorization.v) # <<HACKRX_TOKEN>> THEN 401
    ELSE 0

\* main_simple.py:100-132, one pass of the loop
SimpleAnswer(question, outcome) ==
    IF outcome.kind = "text" THEN strip(outcome.text)
    ELSE <<"Based on the document, this relates to: ">> \o FStr(question)

\* the calls one pass of the loop of main_simple.py makes
SIMPLE_PASS_CALLS == <<"search_similar_documents", "generate_content">>

RECURSIVE Times(_, _)
\* n copies of the sequence s, one after the other
Times(s, n) == IF n = 0 THEN <<>> ELSE s \o Times(s, n - 1)

\* main_simple.py:92-139: process_document_from_url has returned processing
simple_answer(questions, processing, outcome) ==
    IF ~processing.result.success
    THEN Ran(HTTPException(400, "Failed to process document"), processing.text,
             processing.calls)
    ELSE Ran(Ok([answers |-> [i \in 1..Len(questions) |->
                                 SimpleAnswer(questions[i], outcome)]]),
             processing.text,
             processing.calls \o Times(SIMPLE_PASS_CALLS, Len(questions)))

\* hackrx_endpoint of main_simple.py:66-145.  request_data is
\* [document_url, questions]
simple_hackrx_endpoint(request_data, authorization, file, net, uuids, outcome) ==
    IF verify_hackrx_token(authorization) # 0
    THEN Ran(HTTPException(verify_hackrx_token(authorization), "Unauthorized"), <<>>, <<>>)
    ELSE IF ~Truthy(request_data.document_url)
    THEN Ran(HTTPException(400, "document_url is required"), <<>>, <<>>)
    ELSE IF ~Truthy(request_data.questions)
    THEN Ran(HTTPException(400, "questions list is required"), <<>>, <<>>)
    ELSE simple_answer(request_data.questions.v,
                       process_document_from_url(request_data.document_url.v, file, net,
                                                 uuids),
                       outcome)

\* app.py:48-49: the answer to question i (from 1)
AppAnswer(i, question) ==
    <<"Answer ", IntStr[i], ": Processed question about ", IntStr[Len(question.v)],
      " characters">>

\* hackrx_run of app.py:36-53 behind verify_token of app.py:22-28.
\* credentials is the bearer token of the request, data is [questions]
hackrx_run(data, credentials) ==
    IF credentials # HACKRX_TOKEN
    THEN HTTPException(401, "Invalid token")
    ELSE IF ~Truthy(data.questions)
    THEN Ok([answers |-> << <<"No questions provided">> >>])
    ELSE IF \E i \in 1..Len(data.questions.v) : data.questions.v[i].t # "str"
    THEN Ok([answers |-> << <<"Error processing request: TypeError">> >>])
    ELSE Ok([answers |-> [i \in 1..Len(data.questions.v) |->
                             AppAnswer(i, data.questions.v[i])]])

(***************************************************************************)
(* The inputs of the model.                                                *)
(***************************************************************************)
\* n copies of the character c
Rep(c, n) == [i \in 1..n |-> c]

FILES ==
    { [filename |-> <<"policy", "PDF">>, fmt |-> "pdf",
       parts |-> << <<"k", "n", "e", "e">>, <<"A", "sp", "b">> >>],
      [filename |-> <<"scan", "pdf">>, fmt |-> "pdf", parts |-> << <<"sp">>, <<>> >>],
      [filename |-> <<"broken", "pdf">>, fmt |-> "garbage", parts |-> << <<"x">> >>],
      [filename |-> <<"terms", "docx">>, fmt |-> "docx",
       parts |-> << Rep("x", PREVIEW_LEN), <<"y">> >>],
      [filename |-> <<"notes", "txt">>, fmt |-> "bytes",
       parts |-> << <<"sp", "bad", "sp">> >>],
      [filename |-> <<"memo">>, fmt |-> "bytes",
       parts |-> << <<"h", "bad", "i">> >>] }

\* the runs of uuid4().hex[:8] values one ingest may draw
UUID_DRAWS == { <<"0a0a0a0a", "0a0a0a0a", "0a0a0a0a">>, <<"0a0a0a0a", "1b1b1b1b", "0a0a0a0a">> }

FAULTS == {"none", "chunk", "embed", "upsert"}

QUERIES == { <<"knee", "sp", "surgery">>, <<"A">> }

\* json.dumps, and the model's way of writing the JSON it is asked for
NumChar(n) == CASE n = 5000 -> "5000" [] OTHER -> "0"

RECURSIVE JoinComma(_)
JoinComma(texts) ==
    IF texts = <<>> THEN <<>>
    ELSE IF Len(texts) = 1 THEN texts[1]
    ELSE texts[1] \o <<",", "sp">> \o JoinComma(Tail(texts))

RECURSIVE dumps(_)
dumps(x) ==
    CASE x.t = "null" -> <<"null">>
      [] x.t = "num" -> <<NumChar(x.v)>>
      [] x.t = "str" -> <<"q">> \o x.v \o <<"q">>
      [] x.t = "list" ->
            <<"[">> \o JoinComma([i \in 1..Len(x.v) |-> dumps(x.v[i])]) \o <<"]">>
      [] x.t = "dict" ->
            <<"{">>
            \o JoinComma([i \in 1..Len(x.v) |->
                             <<"q">> \o x.v[i].k \o <<"q", ":", "sp">> \o dumps(x.v[i].v)])
            \o <<"}">>

\* the fences a model wraps its JSON in
Fenced(tag, payload) ==
    FENCE \o tag \o <<"nl">> \o payload \o <<"nl">> \o FENCE \o <<"nl">>
FENCE_TAGS == { <<>>, <<"j", "s", "o", "n">> }

\* a Decision as the prompt of make_decision asks for it (gemini_llm.py:83-93)
DecisionPayload(decision, amount, justification) ==
    PyDict(<< Item(<<"decision">>, PyStr(<<decision>>)),
              Item(<<"amount">>, amount),
              Item(<<"justification">>, PyList(justification)) >>)

\* a ParsedQuery as the prompt of parse_query asks for it (gemini_llm.py:15-22)
ParsedQueryPayload(topic, amount) ==
    PyDict(<< Item(<<"target_topic">>, PyStr(topic)),
              Item(<<"age">>, None),
              Item(<<"gender">>, None),
              Item(<<"policy_duration">>, None),
              Item(<<"location">>, None),
              Item(<<"special_conditions">>, None),
              Item(<<"amount_requested">>, amount) >>)

\* the JSON payloads the model answers with
PAYLOADS ==
    { DecisionPayload("Approved", PyNum(5000),
                      <<Entry("clause_1", <<"covered">>, "matches")>>),
      DecisionPayload("Approved", None,
                      <<Entry("clause_1", <<"see", "sp", "bt", "bt", "bt", "x", "bt", "bt", "bt">>,
                              "quotes the clause")>>),
      DecisionPayload("Rejected", None, <<>>),
      PyDict(<< Item(<<"decision">>, PyStr(<<"Approved">>)),
                Item(<<"justification">>,
                     PyList(<<Entry("clause_1", <<"covered">>, "matches")>>)) >>),
      PyList(<< PyStr(<<"decision">>), PyStr(<<"amount">>), PyStr(<<"justification">>) >>),
      ParsedQueryPayload(<<"knee", "sp", "surgery">>, PyNum(5000)),
      ParsedQueryPayload(<<"bt", "bt", "bt", "j", "s", "o", "n">>, None),
      PyDict(<< Item(<<"target_topic">>, PyStr(<<"knee">>)) >>) }

\* answers that are not JSON
PROSE == { <<>>, <<"Sorry", "sp", "I", "sp", "cannot">>, <<"{", "q", "decision", "q", ":">> }

\* every text the model answers with: a payload bare or fenced, or prose
LLM_TEXTS ==
    {dumps(p) : p \in PAYLOADS}
        \cup {Fenced(tag, dumps(p)) : tag \in FENCE_TAGS, p \in PAYLOADS}
        \cup PROSE

\* every way a generate_content call ends
LLM_OUTCOMES == {CallError, NoText} \cup {Text(s) : s \in LLM_TEXTS}

\* the outcomes the endpoint actions draw from, one of each kind
PARSE_OUTCOMES ==
    { CallError, NoText,
      Text(Fenced(<<"j", "s", "o", "n">>,
                  dumps(ParsedQueryPayload(<<"knee", "sp", "surgery">>, PyNum(5000))))),
      Text(dumps(PyDict(<< Item(<<"target_topic">>, PyStr(<<"knee">>)) >>))) }

DECIDE_OUTCOMES ==
    { CallError, NoText,
      Text(dumps(DecisionPayload("Approved", PyNum(5000),
                                 <<Entry("clause_1", <<"covered">>, "matches")>>))),
      Text(dumps(DecisionPayload("Rejected", None, <<>>))),
      Text(dumps(PyList(<< PyStr(<<"decision">>), PyStr(<<"amount">>),
                           PyStr(<<"justification">>) >>))),
      Text(<<"Sorry", "sp", "I", "sp", "cannot">>) }

\* what index.query does: rank one way, rank the other way, or raise
BACKENDS == {"asc", "desc", "error"}

\* the document_id argument of a request
DOCUMENT_IDS == {None, PyNum(1), PyNum(2)}

QUERY_REQUESTS ==
    {[query |-> PyStr(q), document_id |-> d] : q \in QUERIES, d \in DOCUMENT_IDS}
        \cup {[query |-> None, document_id |-> None]}

RUN_REQUESTS ==
    {[query |-> PyStr(q), question |-> None, document_url |-> u] :
        q \in QUERIES, u \in {None, PyStr(<<"https://example.com/a.pdf">>)}}
        \cup {[query |-> None, question |-> PyStr(<<"A">>), document_url |-> None],
              [query |-> None, question |-> None, document_url |-> None]}

\* the files a server holds, each under the URL that ends in its name
URL_FILES == {f \in FILES : Len(f.filename) > 1}
Url(file) == <<URL_HOST>> \o file.filename
Resource(url) ==
    IF \E f \in URL_FILES : Url(f) = url
    THEN CHOOSE f \in URL_FILES : Url(f) = url
    ELSE CHOOSE f \in URL_FILES : f.fmt = "garbage"

\* what requests.get does
NETS == {"ok", "status_404", "timeout"}

URL_REQUESTS ==
    {[url |-> PyStr(Url(f))] : f \in URL_FILES}
        \cup {[url |-> None], [url |-> PyStr(<<"not a url">>)]}

AUTHORIZATIONS == {PyStr(<<EXPECTED_TOKEN>>), PyStr(<<"Bearer wrong">>), None}

QUESTION_LISTS ==
    { PyList(<<PyStr(<<"knee", "sp", "surgery">>)>>),
      PyList(<<PyStr(<<"knee", "sp", "surgery">>), PyStr(<<"A">>)>>),
      PyList(<<PyNum(0), PyStr(<<"A">>)>>) }

COMPLIANCE_REQUESTS ==
    {[documents |-> PyStr(Url(f)), questions |-> q] : f \in URL_FILES, q \in QUESTION_LISTS}
        \cup {[documents |-> PyList(<<PyStr(Url(f))>>), questions |-> q] :
                 f \in {g \in URL_FILES : g.fmt = "docx"}, q \in QUESTION_LISTS}
        \cup {[documents |-> d, questions |-> q] :
                 d \in {None, PyStr(<<"not a url">>)},
                 q \in {PyList(<<PyStr(<<"A">>)>>)}}
        \cup {[documents |-> PyStr(<<"not a url">>), questions |-> q] :
                 q \in {None, PyList(<<>>), PyStr(<<"A">>)}}

\* the outcomes of the make_decision calls of one compliance request
COMPLIANCE_OUTCOMES ==
    { CallError, NoText,
      Text(dumps(DecisionPayload("Approved", PyNum(5000),
                                 <<Entry("clause_1", <<"covered">>, "matches")>>))),
      Text(dumps(DecisionPayload("Rejected", None, <<>>))) }

\* the URLs the deployment variants are handed
VARIANT_URLS ==
    {Url(f) : f \in {g \in URL_FILES : g.fmt \in {"pdf", "garbage", "bytes"}}}
        \cup {<<"not a url">>}

ULTRA_REQUESTS ==
    {[document_url |-> PyStr(u), questions |-> PyList(<<PyStr(<<"A">>)>>)] :
        u \in VARIANT_URLS}
        \cup {[document_url |-> None, questions |-> PyList(<<PyStr(<<"A">>)>>)],
              [document_url |-> PyStr(<<"not a url">>), questions |-> PyList(<<>>)]}

\* what the generate_content call of main_ultra_simple.py ends as
ULTRA_OUTCOMES == {CallError, NoText, Text(<<"sp", "Yes", "nl">>)}

\* the top_k argument of search_similar_chunks: absent, or smaller than the
\* index can get
TOP_KS == {None, PyNum(1), PyNum(2)}

\* the document_id argument of search_similar_chunks: absent, 0, the id of
\* the first document, an id no document has
SEARCH_DOCUMENT_IDS == {None, PyNum(0), PyNum(1), PyNum(MaxDocs + 2)}

\* the top_k argument of search_similar_documents
MOCK_TOP_KS == 0..4

\* the Authorization headers main_simple.py is sent
SIMPLE_AUTHORIZATIONS ==
    {PyStr(<<"Bearer ", HACKRX_TOKEN>>), PyStr(<<"Bearer ", "wrong">>), None}

\* the bodies main_simple.py and app.py are sent
SIMPLE_REQUESTS ==
    {[document_url |-> PyStr(u), questions |-> q] :
        u \in {Url(f) : f \in {g \in URL_FILES : g.filename = <<"policy", "PDF">>}},
        q \in QUESTION_LISTS \cup {PyList(<<>>)}}
        \cup {[document_url |-> None, questions |-> PyList(<<PyStr(<<"A">>)>>)]}

\* the bearer tokens app.py is sent
CREDENTIALS == {HACKRX_TOKEN, "wrong"}

(***************************************************************************)
(* The state machine: one request is served at a time, end to end.         *)
(***************************************************************************)
VARIABLES
    index,            \* the Pinecone index: the vectors in insertion order
    documents,        \* the documents table
    document_chunks,  \* the document_chunks table
    nqueries,         \* the number of rows of the queries table
    out               \* the call being answered: its inputs and what it did

vars == <<index, documents, document_chunks, nqueries, out>>

Idle == [op |-> "idle"]

Init ==
    /\ index = <<>>
    /\ documents = <<>>
    /\ document_chunks = <<>>
    /\ nqueries = 0
    /\ out = Idle

\* the text process_document extracts from a file
TextOf(file) == extract_text(file, lower(file.filename[Len(file.filename)]))

\* POST /upload
UploadDocument ==
    /\ out = Idle
    /\ Len(documents) < MaxDocs
    /\ \E file \in FILES, uuids \in UUID_DRAWS, fault \in FAULTS :
         \E chunks \in ChunkOutcomes(TextOf(file)) :
            LET done == upload_document(file, index, documents, document_chunks,
                                        chunks, uuids, fault)
            IN  /\ index' = done.index
                /\ documents' = done.documents
                /\ document_chunks' = done.document_chunks
                /\ out' = [op |-> "upload_document", file |-> file,
                           text |-> TextOf(file), chunks |-> chunks, fault |-> fault,
                           index_before |-> index, result |-> done.result,
                           upserts |-> done.upserts, response |-> done.response,
                           writes |-> done.writes]
    /\ UNCHANGED nqueries

\* the state after a request of op was served as done
Served(op, request, p, b, d, done) ==
    /\ nqueries' = nqueries + done.rows
    /\ out' = [op |-> op, request |-> request, parse_outcome |-> p, backend |-> b,
               decide_outcome |-> d, retrieved |-> done.retrieved,
               calls |-> done.calls, response |-> done.response]

\* POST /query
ProcessQuery ==
    /\ out = Idle
    /\ nqueries < MaxQueries
    /\ \E request \in QUERY_REQUESTS, p \in PARSE_OUTCOMES, b \in BACKENDS,
          d \in DECIDE_OUTCOMES :
            Served("process_query", request, p, b, d,
                   process_query(request, index, nqueries, p, b, d))
    /\ UNCHANGED <<index, documents, document_chunks>>

\* POST /hackrx/run with a body that is not in the documents-and-questions
\* format
HackrxRun ==
    /\ out = Idle
    /\ nqueries < MaxQueries
    /\ \E request \in RUN_REQUESTS, authorization \in AUTHORIZATIONS,
          p \in PARSE_OUTCOMES, b \in BACKENDS, d \in DECIDE_OUTCOMES :
            LET done == hackrx_run_endpoint(request, index, documents, p, b, d)
            IN  /\ nqueries' = nqueries + done.rows
                /\ out' = [op |-> "hackrx_run_endpoint", request |-> request,
                           authorization |-> authorization, parse_outcome |-> p,
                           backend |-> b, decide_outcome |-> d,
                           retrieved |-> done.retrieved, calls |-> done.calls,
                           response |-> done.response]
    /\ UNCHANGED <<index, documents, document_chunks>>

\* a direct call of GeminiLLM.parse_query
ParseQueryCall ==
    /\ out = Idle
    /\ \E query \in QUERIES, outcome \in LLM_OUTCOMES :
            out' = [op |-> "parse_query", query |-> query, outcome |-> outcome,
                    result |-> parse_query(query, outcome)]
    /\ UNCHANGED <<index, documents, document_chunks, nqueries>>

\* single passages at the preview length, one character beyond it, and a
\* short one that ends in three dots itself
PREVIEW_CLAUSES ==
    {<<[text |-> t, score |-> 1000]>> :
        t \in {Rep("x", PREVIEW_LEN), Rep("x", PREVIEW_LEN + 1), <<"w">> \o ELLIPSIS}}

\* the clause lists search_similar_chunks can hand to make_decision
ClauseLists(idx) ==
    {search_similar_chunks(idx, <<>>, d, None, b) : d \in DOCUMENT_IDS, b \in BACKENDS}

\* a direct call of GeminiLLM.make_decision
MakeDecisionCall ==
    /\ out = Idle
    /\ \E query \in QUERIES, clauses \in ClauseLists(index) \cup PREVIEW_CLAUSES,
          outcome \in LLM_OUTCOMES :
            out' = [op |-> "make_decision", query |-> query, clauses |-> clauses,
                    outcome |-> outcome,
                    result |-> make_decision(query, DefaultParsedQuery(query),
                                             clauses, outcome)]
    /\ UNCHANGED <<index, documents, document_chunks, nqueries>>

\* POST /upload-url.  An input the handler does not get to read is held at
\* one value
UploadDocumentFromUrl ==
    /\ out = Idle
    /\ Len(documents) < MaxDocs
    /\ \E request \in URL_REQUESTS, net \in NETS, uuids \in UUID_DRAWS, fault \in FAULTS :
         LET fetched == /\ Truthy(request.url)
                        /\ HasSchemeAndHost(request.url.v)
                        /\ net = "ok"
             file == Resource(IF Truthy(request.url) THEN request.url.v ELSE <<>>)
         IN  /\ (~Truthy(request.url) \/ ~HasSchemeAndHost(request.url.v)) => net = "ok"
             /\ ~fetched => (fault = "none" /\ uuids = CHOOSE u \in UUID_DRAWS : TRUE)
             /\ \E chunks \in (IF fetched THEN ChunkOutcomes(TextOf(file)) ELSE {<<>>}) :
                  LET done == upload_document_from_url(request, file, net, index,
                                                       documents, document_chunks,
                                                       chunks, uuids, fault)
                  IN  /\ index' = done.index
                      /\ documents' = done.documents
                      /\ document_chunks' = done.document_chunks
                      /\ out' = [op |-> "upload_document_from_url",
                                 request |-> request, net |-> net,
                                 chunks |-> chunks, fault |-> fault,
                                 index_before |-> index, result |-> done.result,
                                 upserts |-> done.upserts, response |-> done.response,
                                 writes |-> done.writes]
    /\ UNCHANGED nqueries

\* POST /api/v1/hackrx/run, and POST /hackrx/run with a body in the
\* documents-and-questions format.  An input the handler does not get to
\* read is held at one value
HackrxOfficialCompliance ==
    /\ out = Idle
    /\ Len(documents) < MaxDocs
    /\ nqueries < MaxQueries
    /\ \E request \in COMPLIANCE_REQUESTS, authorization \in AUTHORIZATIONS, net \in NETS,
          fault \in {"none", "chunk"}, match \in BOOLEAN, d \in COMPLIANCE_OUTCOMES :
         LET url == IF request.documents = None THEN <<>>
                    ELSE IF request.documents.t = "list" THEN request.documents.v[1].v
                    ELSE request.documents.v
             file == Resource(url)
             started == /\ authorization = PyStr(<<EXPECTED_TOKEN>>)
                        /\ Truthy(request.documents)
                        /\ Truthy(request.questions) /\ request.questions.t = "list"
             text == ComplianceText(url, file)
             stored == /\ started /\ HasSchemeAndHost(url) /\ net = "ok"
                       /\ Len(strip(text)) >= MIN_TEXT_LEN
         IN  /\ ~started => net = "ok"
             /\ ~stored => (fault = "none" /\ match = FALSE /\ d = CallError)
             /\ (fault = "chunk") => (match = FALSE /\ d = CallError)
             /\ ~match => d = CallError
             /\ \E chunks \in (IF stored /\ fault = "none" THEN ChunkOutcomes(text)
                               ELSE {<<>>}) :
                  LET done == hackrx_official_compliance_endpoint(
                                  request, authorization, file, net, documents,
                                  document_chunks, chunks, fault, match, d)
                  IN  /\ documents' = done.documents
                      /\ document_chunks' = done.document_chunks
                      /\ nqueries' = nqueries + done.rows
                      /\ out' = [op |-> "hackrx_official_compliance_endpoint",
                                 request |-> request, authorization |-> authorization,
                                 net |-> net, chunks |-> chunks, fault |-> fault,
                                 match |-> match, decide_outcome |-> d,
                                 calls |-> done.calls, response |-> done.response,
                                 writes |-> done.writes]
    /\ UNCHANGED index

\* a call of search_similar_chunks of document_processor.py
SearchSimilarChunksCall ==
    /\ out = Idle
    /\ \E query \in QUERIES, document_id \in SEARCH_DOCUMENT_IDS, top_k \in TOP_KS,
          b \in BACKENDS :
            out' = [op |-> "search_similar_chunks", query |-> query,
                    document_id |-> document_id, top_k |-> top_k, backend |-> b,
                    filter |-> filter_dict(document_id),
                    result |-> search_similar_chunks(index, query, document_id, top_k, b)]
    /\ UNCHANGED <<index, documents, document_chunks, nqueries>>

\* a call of search_similar_documents of simple_document_processor.py
SearchSimilarDocumentsCall ==
    /\ out = Idle
    /\ \E query \in QUERIES, top_k \in MOCK_TOP_KS :
            out' = [op |-> "search_similar_documents", query |-> query,
                    top_k |-> top_k,
                    result |-> search_similar_documents(query, top_k)]
    /\ UNCHANGED <<index, documents, document_chunks, nqueries>>

\* a call of process_document_from_url of simple_document_processor.py
ProcessDocumentFromUrl ==
    /\ out = Idle
    /\ \E url \in VARIANT_URLS, net \in NETS, uuids \in UUID_DRAWS :
         LET done == process_document_from_url(url, Resource(url), net, uuids)
         IN  /\ Fetch(url, net) # "ok" => uuids = CHOOSE u \in UUID_DRAWS : TRUE
             /\ ~HasSchemeAndHost(url) => net = "ok"
             /\ out' = [op |-> "process_document_from_url", url |-> url, net |-> net,
                        file |-> Resource(url), uuids |-> uuids,
                        text |-> done.text, result |-> done.result,
                        calls |-> done.calls]
    /\ UNCHANGED <<index, documents, document_chunks, nqueries>>

\* POST /hackrx/run of main_ultra_simple.py
HackrxEndpoint ==
    /\ out = Idle
    /\ \E request_data \in ULTRA_REQUESTS, net \in NETS, gemini \in BOOLEAN,
          outcome \in ULTRA_OUTCOMES :
         LET valid == Truthy(request_data.document_url) /\ Truthy(request_data.questions)
             url == IF Truthy(request_data.document_url) THEN request_data.document_url.v
                    ELSE <<>>
             done == hackrx_endpoint(request_data, Resource(url), net, gemini, outcome)
         IN  /\ (~valid \/ ~HasSchemeAndHost(url)) => net = "ok"
             /\ ~valid => gemini
             /\ (~valid \/ ~gemini) => outcome = CallError
             /\ out' = [op |-> "hackrx_endpoint", request_data |-> request_data,
                        net |-> net, file |-> Resource(url), gemini |-> gemini,
                        outcome |-> outcome, text |-> done.text,
                        response |-> done.result, calls |-> done.calls]
    /\ UNCHANGED <<index, documents, document_chunks, nqueries>>

\* POST /hackrx/run of main_simple.py
SimpleHackrxEndpoint ==
    /\ out = Idle
    /\ \E request_data \in SIMPLE_REQUESTS, authorization \in SIMPLE_AUTHORIZATIONS,
          net \in {"ok", "timeout"}, outcome \in ULTRA_OUTCOMES :
         LET started == /\ verify_hackrx_token(authorization) = 0
                        /\ Truthy(request_data.document_url)
                        /\ Truthy(request_data.questions)
             url == IF Truthy(request_data.document_url) THEN request_data.document_url.v
                    ELSE <<>>
             done == simple_hackrx_endpoint(request_data, authorization, Resource(url),
                                            net, CHOOSE u \in UUID_DRAWS : TRUE, outcome)
         IN  /\ ~started => net = "ok"
             /\ (~started \/ net # "ok") => outcome = CallError
             /\ out' = [op |-> "simple_hackrx_endpoint", request_data |-> request_data,
                        authorization |-> authorization, net |-> net,
                        outcome |-> outcome, response |-> done.result,
                        calls |-> done.calls]
    /\ UNCHANGED <<index, documents, document_chunks, nqueries>>

\* POST /hackrx/run of app.py
HackrxRunApp ==
    /\ out = Idle
    /\ \E request_data \in SIMPLE_REQUESTS, credentials \in CREDENTIALS :
         out' = [op |-> "hackrx_run", request_data |-> request_data,
                 credentials |-> credentials,
                 response |-> hackrx_run([questions |-> request_data.questions],
                                         credentials)]
    /\ UNCHANGED <<index, documents, document_chunks, nqueries>>

\* the response has gone back to the caller
Respond ==
    /\ out # Idle
    /\ out' = Idle
    /\ UNCHANGED <<index, documents, document_chunks, nqueries>>

Next ==
    \/ UploadDocument
    \/ UploadDocumentFromUrl
    \/ HackrxOfficialCompliance
    \/ ProcessQuery
    \/ HackrxRun
    \/ ParseQueryCall
    \/ MakeDecisionCall
    \/ SearchSimilarChunksCall
    \/ SearchSimilarDocumentsCall
    \/ ProcessDocumentFromUrl
    \/ HackrxEndpoint
    \/ SimpleHackrxEndpoint
    \/ HackrxRunApp
    \/ Respond

Spec == Init /\ [][Next]_vars

(***************************************************************************)
(* Properties.                                                             *)
(***************************************************************************)
IsAnswerFlow == out.op \in {"process_query", "hackrx_run_endpoint"}

\* the request reached retrieval and retrieval returned no passage
RetrievalEmpty == IsAnswerFlow /\ Len(out.calls) >= 2 /\ out.retrieved = <<>>

IsBlank(text) == \A i \in 1..Len(text) : text[i] \in {"sp", "nl"}

Min(a, b) == IF a < b THEN a ELSE b

C2_DecisionAlwaysJustified ==
    (out.op = "make_decision" /\ out.result.kind = "return") =>
        /\ out.result.v.t = "dict"
        /\ \A i \in 1..Len(REQUIRED_KEYS) : PyIn(REQUIRED_KEYS[i], out.result.v)
        /\ PyGet(out.result.v, <<"justification">>).t = "list"
        /\ PyGet(out.result.v, <<"justification">>).v # <<>>

\* C3: with at least one retrieved passage make_decision returns a Decision
\* for every outcome of the model call; it never raises
C3_MakeDecisionNeverRaises ==
    (out.op = "make_decision" /\ out.clauses # <<>>) => out.result.kind = "return"

\* C4: the mapping parse_query returns holds every ParsedQuery field
C4_ParsedQueryFullyPopulated ==
    (out.op = "parse_query" /\ out.result.kind = "return") =>
        /\ out.result.v.t = "dict"
        /\ \A i \in 1..Len(PARSED_QUERY_FIELDS) :
               PyIn(PARSED_QUERY_FIELDS[i], out.result.v)

\* the model call failed, gave no readable text, or gave text that is not JSON
AnalysisFailed(outcome) ==
    outcome.kind \in {"call_error", "no_text"} \/ outcome.text \in PROSE

\* C5: on every analysis failure parse_query returns the ParsedQuery whose
\* target_topic is the question and whose other fields are null, and the
\* answer flow goes on to retrieval
C5_AnalysisFailureAbsorbed ==
    /\ (out.op = "parse_query" /\ AnalysisFailed(out.outcome)) =>
           /\ out.result.kind = "return"
           /\ PyGet(out.result.v, <<"target_topic">>) = PyStr(out.query)
           /\ \A i \in 2..Len(PARSED_QUERY_FIELDS) :
                  PyGet(out.result.v, PARSED_QUERY_FIELDS[i]) = None
    /\ (IsAnswerFlow /\ out.calls # <<>> /\ AnalysisFailed(out.parse_outcome)) =>
           Len(out.calls) >= 2

\* a Decision payload that lacks the amount key
MissingAmount ==
    PyDict(<< Item(<<"decision">>, PyStr(<<"Approved">>)),
              Item(<<"justification">>,
                   PyList(<<Entry("clause_1", <<"covered">>, "matches")>>)) >>)

\* the model call failed or its text is malformed or schema-invalid
SynthesisFailed(outcome) ==
    \/ outcome.kind = "call_error"
    \/ outcome.kind = "text" /\ outcome.text \in PROSE \cup {dumps(MissingAmount)}

\* C6: when synthesis falls back with n >= 1 retrieved passages the Decision
\* is Approved with amount null and min(n, 2) justification entries, the i-th
\* (clause_i) showing the text of the i-th retrieved passage
C6_FallbackFromPassages ==
    (out.op = "make_decision" /\ out.clauses # <<>>) =>
        /\ SynthesisFailed(out.outcome) => out.result.path = "fallback"
        /\ out.result.path = "fallback" =>
            LET d == out.result.v
                j == PyGet(d, <<"justification">>).v
            IN  /\ PyGet(d, <<"decision">>) = PyStr(<<"Approved">>)
                /\ PyGet(d, <<"amount">>) = None
                /\ Len(j) = Min(Len(out.clauses), 2)
                /\ \A i \in 1..Len(j) :
                       LET passage == out.clauses[i].text
                           shown == PyGet(j[i], <<"text">>).v
                           k == Min(Len(passage), PREVIEW_LEN)
                       IN  /\ PyGet(j[i], <<"clause_id">>) = PyStr(<<"clause_", IntStr[i]>>)
                           /\ Len(shown) >= k
                           /\ SubSeq(shown, 1, k) = SubSeq(passage, 1, k)

\* C6 witness: a fallback over three retrieved passages with distinct texts
C6_Witness ==
    /\ out.op = "make_decision"
    /\ out.result.path = "fallback"
    /\ Len(out.clauses) >= 3
    /\ out.clauses[1].text # out.clauses[2].text
    /\ Len(PyGet(out.result.v, <<"justification">>).v) = 2

\* C7, as stated: a fallback over an empty passage list is Rejected with
\* exactly one synthetic entry
C7_EmptyFallbackRejected ==
    (out.op = "make_decision" /\ out.clauses = <<>> /\ out.result.path = "fallback") =>
        /\ PyGet(out.result.v, <<"decision">>) = PyStr(<<"Rejected">>)
        /\ Len(PyGet(out.result.v, <<"justification">>).v) = 1

\* C7, amended: a fallback over an empty passage list is Approved with amount
\* null and exactly one synthetic entry, system_fallback, which reports that
\* the response of the model could not be used
C7_EmptyFallbackApproved ==
    (out.op = "make_decision" /\ out.clauses = <<>>) =>
        /\ SynthesisFailed(out.outcome) => out.result.path = "fallback"
        /\ out.result.path = "fallback" =>
            /\ PyGet(out.result.v, <<"decision">>) = PyStr(<<"Approved">>)
            /\ PyGet(out.result.v, <<"amount">>) = None
            /\ Len(PyGet(out.result.v, <<"justification">>).v) = 1
            /\ PyGet(PyGet(out.result.v, <<"justification">>).v[1], <<"clause_id">>)
                   = PyStr(<<"system_fallback">>)

\* C7 witness: the model answers prose and no passage was retrieved
C7_Witness ==
    /\ out.op = "make_decision"
    /\ out.clauses = <<>>
    /\ out.outcome.kind = "text"
    /\ out.result.path = "fallback"

\* C8: a payload wrapped in a code fence, with or without the json tag, is
\* parsed by parse_query and make_decision to what the bare payload is
\* parsed to
C8_FenceTransparent ==
    \A p \in PAYLOADS, tag \in FENCE_TAGS :
        /\ (out.op = "parse_query" /\ out.outcome = Text(Fenced(tag, dumps(p)))) =>
               (out.result.kind = "return" /\ out.result.v = p)
        /\ (out.op = "make_decision" /\ out.outcome = Text(Fenced(tag, dumps(p)))) =>
               out.result = make_decision(out.query, None, out.clauses, Text(dumps(p)))

\* C9: a document whose extracted text is empty or blank is answered with
\* success = false and an error, and no upsert reaches the index
C9_BlankTextLeavesIndex ==
    (out.op = "upload_document" /\ IsBlank(out.text)) =>
        /\ out.result.kind = "return"
        /\ out.result.v.success = FALSE
        /\ "error" \in DOMAIN out.result.v
        /\ out.upserts = 0
        /\ index = out.index_before

\* C9 witness: a blank text long enough for the splitter to cut
C9_Witness ==
    /\ out.op = "upload_document"
    /\ IsBlank(out.text)
    /\ Len(out.text) >= 3
    /\ out.chunks # <<>>
    /\ out.fault = "none"
    /\ out.result.v.success = FALSE

\* C10: process_document hands back a result with a success flag for every
\* input and every failing step, {success: false, error} on a failure, and
\* never an exception
C10_ProcessDocumentNeverRaises ==
    out.op = "upload_document" =>
        /\ out.result.kind = "return"
        /\ "success" \in DOMAIN out.result.v
        /\ out.result.v.success \in BOOLEAN
        /\ ~out.result.v.success => "error" \in DOMAIN out.result.v
        /\ (out.fault # "none" \/ out.file.fmt = "garbage") => ~out.result.v.success

\* C10 witness: the upsert is issued and the backend fails
C10_Witness ==
    /\ out.op = "upload_document"
    /\ out.fault = "upsert"
    /\ out.upserts = 1
    /\ out.result.v = Failure("PineconeException")

\* C11: when index.query fails during an answer request the request is
\* answered as a failure, never as the Rejected no-results Decision that an
\* index without a matching passage gives
C11_BackendFailureSurfaced ==
    (IsAnswerFlow /\ Len(out.calls) >= 2 /\ out.backend = "error") =>
        /\ out.response # Ok(NoResultsQuery)
        /\ out.response # Ok(NoResultsRun)

\* the handlers that ingest a document
INGEST_OPS ==
    {"upload_document", "upload_document_from_url", "hackrx_official_compliance_endpoint"}

TERMINAL == {"processed", "failed"}

\* C12: an ingest attempt that creates a Document creates it pending and then
\* sets its status once, to processed or failed; no Document is created in
\* another status, none is left pending when the attempt ends, and the status
\* of a Document that is processed or failed never changes
C12_StatusLifecycle ==
    /\ [](out.op \in INGEST_OPS =>
            out.writes \in {<<>>, <<"pending", "processed">>, <<"pending", "failed">>})
    /\ [](\A i \in 1..Len(documents) : documents[i].processed \in TERMINAL)
    /\ [][\A i \in 1..Len(documents) :
              Len(documents') >= i /\ documents'[i] = documents[i]]_vars

(***************************************************************************)
(* Concurrent ingests.  store_embeddings (document_processor.py:96-127)    *)
(* runs in several requests at once: each builds its batch, drawing one    *)
(* uuid4 per chunk, and then issues its one index.upsert call.  out[p] is  *)
(* the call of request p: its document_id, its chunks and the uuids drawn  *)
(* so far.                                                                 *)
(***************************************************************************)
NumIngests == 2
INGEST_DOCUMENT_IDS == {1, 2}
\* the values uuid.uuid4().hex[:8] can take
UUIDS == {"0a0a0a0a", "1b1b1b1b"}

Ingests == 1..NumIngests

\* the chunks request p stores: each names the request and its position
IngestChunks(p, n) ==
    [i \in 1..n |-> <<"request", IntStr[p], "chunk", IntStr[i]>>]

InitIngest ==
    /\ index = <<>>
    /\ documents = <<>>
    /\ document_chunks = <<>>
    /\ nqueries = 0
    /\ out = [p \in Ingests |-> [pc |-> "idle", document_id |-> 0, chunks |-> <<>>,
                                 uuids |-> <<>>]]

\* document_processor.py:96-103: request p enters store_embeddings
StoreBegin(p) ==
    /\ out[p].pc = "idle"
    /\ \E document_id \in INGEST_DOCUMENT_IDS, n \in 1..2 :
          out' = [out EXCEPT ![p] = [pc |-> "building", document_id |-> document_id,
                                     chunks |-> IngestChunks(p, n), uuids |-> <<>>]]
    /\ UNCHANGED <<index, documents, document_chunks, nqueries>>

\* document_processor.py:106-118: one pass of the loop, which draws a uuid
StoreDraw(p) ==
    /\ out[p].pc = "building"
    /\ Len(out[p].uuids) < Len(out[p].chunks)
    /\ \E u \in UUIDS : out' = [out EXCEPT ![p].uuids = Append(@, u)]
    /\ UNCHANGED <<index, documents, document_chunks, nqueries>>

\* document_processor.py:120-127: the one upsert of the batch
StoreUpsert(p) ==
    /\ out[p].pc = "building"
    /\ Len(out[p].uuids) = Len(out[p].chunks)
    /\ index' = Upsert(index,
                       vectors_to_upsert(create_simple_embeddings(out[p].chunks),
                                         out[p].chunks, out[p].document_id,
                                         out[p].uuids))
    /\ out' = [out EXCEPT ![p].pc = "stored"]
    /\ UNCHANGED <<documents, document_chunks, nqueries>>

NextIngest == \E p \in Ingests : StoreBegin(p) \/ StoreDraw(p) \/ StoreUpsert(p)

SpecIngest == InitIngest /\ [][NextIngest]_vars

\* the vector id request p gave its i-th chunk
IssuedId(p, i) == VectorId(out[p].document_id, i - 1, out[p].uuids[i])

\* C13: no two chunks, of one ingest or of two, receive the same vector id,
\* and every vector a finished ingest wrote is still in the index under its
\* own text
C13_VectorIdsUnique ==
    /\ \A p, q \in Ingests :
         \A i \in 1..Len(out[p].uuids), j \in 1..Len(out[q].uuids) :
            (p # q \/ i # j) => IssuedId(p, i) # IssuedId(q, j)
    /\ \A p \in Ingests :
         out[p].pc = "stored" =>
            \A i \in 1..Len(out[p].chunks) :
               \E k \in 1..Len(index) :
                  /\ index[k].id = IssuedId(p, i)
                  /\ index[k].metadata.text = out[p].chunks[i]

(***************************************************************************)
(* The chunker of simple_document_processor.py, a pure function of the     *)
(* text and the chunk size.                                                *)
(***************************************************************************)
MaxTextLen == 4
MaxChunkSize == 3

TEXT_CHARS == {"a", "b", "sp", "nl"}

\* every text of at most n characters
Texts(n) == UNION {[1..k -> TEXT_CHARS] : k \in 0..n}

CHUNK_SIZES == 1..MaxChunkSize

InitChunker ==
    /\ index = <<>>
    /\ documents = <<>>
    /\ document_chunks = <<>>
    /\ nqueries = 0
    /\ out \in {[op |-> "text", text |-> t, chunk_size |-> c] :
                   t \in Texts(MaxTextLen), c \in CHUNK_SIZES}

SplitText ==
    /\ out.op = "text"
    /\ out' = [op |-> "split_text_into_chunks", text |-> out.text,
               chunk_size |-> out.chunk_size,
               chunks |-> split_text_into_chunks(out.text, out.chunk_size)]
    /\ UNCHANGED <<index, documents, document_chunks, nqueries>>

NextChunker == SplitText

SpecChunker == InitChunker /\ [][NextChunker]_vars

WasSplit == out.op = "split_text_into_chunks"

\* C14: every chunk the chunker emits is at most chunk_size characters long
C14_ChunksWithinSize ==
    WasSplit => \A i \in 1..Len(out.chunks) : Len(out.chunks[i]) <= out.chunk_size

\* C15: a text with a character that is not whitespace gives at least one
\* chunk; an empty or whitespace-only text gives none
C15_ChunksIffText ==
    WasSplit =>
        /\ ~IsBlank(out.text) => Len(out.chunks) >= 1
        /\ IsBlank(out.text) => out.chunks = <<>>

\* C15 witness: a text that starts with whitespace and is cut in two chunks
C15_Witness ==
    /\ WasSplit
    /\ out.text # <<>>
    /\ IsSpace(out.text[1])
    /\ Len(out.chunks) = 2

\* the lengths o at which the last o characters of a are the first o of b
Overlaps(a, b) ==
    {o \in 0..Min(Len(a), Len(b)) : SubSeq(a, Len(a) - o + 1, Len(a)) = SubSeq(b, 1, o)}

RECURSIVE Rejoin(_, _, _)
\* the texts got by appending the chunks of rest to the texts of joined, each
\* chunk without a span it shares with the chunk before it
Rejoin(rest, joined, previous) ==
    IF rest = <<>> THEN joined
    ELSE Rejoin(Tail(rest),
                {t \o SubSeq(Head(rest), o + 1, Len(Head(rest))) :
                    t \in joined, o \in Overlaps(previous, Head(rest))},
                Head(rest))

\* every text the chunks can be put back together to
Reassemblies(chunks) ==
    IF chunks = <<>> THEN {<<>>} ELSE Rejoin(Tail(chunks), {chunks[1]}, chunks[1])

\* C16: the chunks in emission order, with the spans consecutive chunks share
\* removed, give back the text: no character is dropped, doubled or moved
C16_RoundTrip ==
    WasSplit => out.text \in Reassemblies(out.chunks)

\* C17: when a text is cut in two or more chunks, consecutive chunks overlap:
\* chunk i ends with the characters chunk i+1 starts with, for an overlap of
\* at least one character
C17_ConsecutiveChunksOverlap ==
    WasSplit =>
        \A i \in 1..(Len(out.chunks) - 1) :
            \E o \in Overlaps(out.chunks[i], out.chunks[i + 1]) : o >= 1

(***************************************************************************)
(* Failures of extraction and of the download.                             *)
(***************************************************************************)
\* the request went as far as reading a downloaded file as a PDF
ReadAsPdf ==
    \/ /\ out.op = "process_document_from_url"
       /\ Fetch(out.url, out.net) = "ok"
       /\ EndsWithPdf(out.url)
    \/ /\ out.op = "hackrx_endpoint"
       /\ Truthy(out.request_data.document_url)
       /\ Truthy(out.request_data.questions)
       /\ Fetch(out.request_data.document_url.v, out.net) = "ok"
       /\ EndsWithPdf(out.request_data.document_url.v)

\* C18: bytes that cannot be read as a PDF or a DOCX file extract to the
\* empty string: no exception, and no text put in their place
C18_ExtractionFailureIsEmpty ==
    /\ \A f \in FILES :
          /\ f.fmt # "pdf" => extract_text(f, <<"pdf">>[1]) = <<>>
          /\ f.fmt # "docx" => extract_text(f, <<"docx">>[1]) = <<>>
    /\ (ReadAsPdf /\ out.file.fmt # "pdf") => out.text = <<>>

\* the range of a sequence
InSeq(x, s) == \E i \in 1..Len(s) : s[i] = x

\* the request went as far as requests.get, and the download failed
DownloadFailed ==
    \/ /\ out.op = "upload_document_from_url"
       /\ Truthy(out.request.url)
       /\ HasSchemeAndHost(out.request.url.v)
       /\ out.net # "ok"
    \/ /\ out.op = "hackrx_official_compliance_endpoint"
       /\ InSeq("requests.get", out.calls)
       /\ out.net # "ok"
    \/ /\ out.op = "process_document_from_url"
       /\ Fetch(out.url, out.net) # "ok"
    \/ /\ out.op = "hackrx_endpoint"
       /\ InSeq("requests.get", out.calls)
       /\ Fetch(out.request_data.document_url.v, out.net) # "ok"

\* nothing was done for the request after requests.get
NothingAfterDownload ==
    IF out.op = "upload_document_from_url"
    THEN out.result.kind = "none" /\ out.writes = <<>> /\ out.upserts = 0
    ELSE out.calls = <<"requests.get">>

\* the response of the request reports a failure
FailureSurfaced ==
    IF out.op = "process_document_from_url" THEN ~out.result.success
    ELSE out.response.status_code # 200

\* C19: a failed download ends the request: nothing is called after
\* requests.get, and the caller is told of the failure
C19_DownloadFailureAborts ==
    DownloadFailed => (NothingAfterDownload /\ FailureSurfaced)

(***************************************************************************)
(* The similarity search.                                                  *)
(***************************************************************************)
\* a search has answered
Searched == out.op \in {"search_similar_chunks", "search_similar_documents"}

\* the top_k the search went by
EffectiveTopK ==
    IF out.op = "search_similar_documents" THEN out.top_k
    ELSE IF out.top_k = None THEN MAX_RETRIEVAL_RESULTS ELSE out.top_k.v

\* the ids of the nearest vectors that pass the filter, nearest first
NearestIds ==
    LET passing == IF Truthy(out.document_id) THEN WithDocument(index, out.document_id.v)
                   ELSE index
        ordered == IF out.backend = "desc" THEN Reverse(passing) ELSE passing
    IN  [i \in 1..Len(ordered) |-> ordered[i].id]

\* C20: a search hands back at most top_k results, by non-increasing score:
\* search_similar_chunks the nearest matches in the order of the backend,
\* search_similar_documents min(top_k, 3) results of decreasing score
C20_TopKByScore ==
    Searched =>
        /\ Len(out.result) <= EffectiveTopK
        /\ \A i \in 1..(Len(out.result) - 1) :
              out.result[i].score >= out.result[i + 1].score
        /\ (out.op = "search_similar_chunks" /\ out.backend # "error") =>
              /\ Len(out.result) = IF Len(NearestIds) < EffectiveTopK
                                   THEN Len(NearestIds) ELSE EffectiveTopK
              /\ \A i \in 1..Len(out.result) : out.result[i].id = NearestIds[i]
        /\ out.op = "search_similar_documents" =>
              /\ Len(out.result) = IF out.top_k < MOCK_RESULTS
                                   THEN out.top_k ELSE MOCK_RESULTS
              /\ \A i \in 1..(Len(out.result) - 1) :
                    out.result[i].score > out.result[i + 1].score

\* a search over an index of three vectors that was cut to top_k = 2 results
C20_Witness ==
    /\ out.op = "search_similar_chunks"
    /\ out.backend # "error"
    /\ out.top_k = PyNum(2)
    /\ Len(NearestIds) = 3
    /\ Len(out.result) = 2
    /\ out.result[1].score > out.result[2].score

(***************************************************************************)
(* The document_id filter of the search.                                   *)
(***************************************************************************)
\* C21: a search that is given a document_id, 0 included, queries the index
\* with that document_id as its filter and hands back only results of that
\* document; only a search without a document_id has no filter
C21_DocumentIdFilter ==
    out.op = "search_similar_chunks" =>
        /\ (out.filter = None) <=> (out.document_id = None)
        /\ out.document_id # None =>
              /\ out.filter = out.document_id
              /\ \A i \in 1..Len(out.result) :
                    out.result[i].document_id = out.document_id.v

(***************************************************************************)
(* The answers of the documents-and-questions format.                      *)
(***************************************************************************)
\* a request in the documents-and-questions format was answered with 200
Answered200 ==
    /\ out.op \in {"hackrx_official_compliance_endpoint", "simple_hackrx_endpoint",
                   "hackrx_run"}
    /\ out.response.status_code = 200

\* the questions of the request
QuestionsOf ==
    IF out.op = "hackrx_official_compliance_endpoint" THEN out.request.questions
    ELSE out.request_data.questions

\* C22: a 200 response in the documents-and-questions format carries one
\* answer per question
C22_OneAnswerPerQuestion ==
    Answered200 =>
        /\ QuestionsOf.t = "list"
        /\ Len(out.response.body.answers) = Len(QuestionsOf.v)

(***************************************************************************)
(* The vectors and the rows of one ingest.                                 *)
(***************************************************************************)
\* an upload whose process_document stored the chunks
Stored ==
    /\ out.op \in {"upload_document", "upload_document_from_url"}
    /\ out.result.kind = "return"
    /\ out.result.path = "stored"

\* the vectors the index holds beyond those it held before the upload
NewVectors == SubSeq(index, Len(out.index_before) + 1, Len(index))

\* C23: a successful ingest of n chunks leaves n new vectors, the i-th with
\* chunk_index i (from 0), the text of the i-th chunk, the id of the document
\* and the i-th returned vector id
C23_ChunkIndexContiguous ==
    Stored =>
        /\ Len(NewVectors) = Len(out.chunks)
        /\ Len(out.result.v.vector_ids) = Len(out.chunks)
        /\ SubSeq(index, 1, Len(out.index_before)) = out.index_before
        /\ \A i \in 1..Len(out.chunks) :
              /\ NewVectors[i].metadata.chunk_index = i - 1
              /\ NewVectors[i].metadata.text = out.chunks[i]
              /\ NewVectors[i].metadata.document_id = Len(documents)
              /\ NewVectors[i].id = out.result.v.vector_ids[i]
              /\ NewVectors[i].id.chunk = i - 1

\* an upload that stored three chunks
C23_Witness ==
    /\ Stored
    /\ Len(out.chunks) = 3
    /\ Len(NewVectors) = 3
    /\ NewVectors[3].metadata.chunk_index = 2

(***************************************************************************)
(* process_document of document_processor.py, step by step.  out is the    *)
(* frame of the call: pc the statement it is at, steps the statements it   *)
(* has executed.                                                           *)
(***************************************************************************)
\* document_processor.py:182: if not text.strip()
TextIsBlank(text) == strip(text) = <<>>

\* a faulty guard that lets an empty chunk list through; C24 tells it from
\* NoChunks
NoChunksIgnored(chunks) == FALSE

\* document_processor.py:187: if not chunks
NoChunks(chunks) == chunks = <<>>

\* the frame when the call has ended with result
Ended(frame, result) == [frame EXCEPT !.pc = "done", !.result = result]

InitProcess ==
    /\ index = <<>>
    /\ documents = <<>>
    /\ document_chunks = <<>>
    /\ nqueries = 0
    /\ out = [pc |-> "idle"]

\* document_processor.py:171-177: process_document is called.  split is what
\* split_text will return, fault the step that raises
ProcessBegin ==
    /\ out.pc = "idle"
    /\ \E file \in FILES, fault \in FAULTS :
         \E split \in ChunkOutcomes(TextOf(file)) :
            out' = [pc |-> "extract", file |-> file, document_id |-> 1, split |-> split,
                    fault |-> fault, uuids |-> CHOOSE u \in UUID_DRAWS : TRUE,
                    text |-> <<>>, chunks |-> <<>>, embeddings |-> <<>>,
                    steps |-> <<>>, upserted |-> <<>>, result |-> [success |-> FALSE]]
    /\ UNCHANGED <<index, documents, document_chunks, nqueries>>

\* document_processor.py:179-181
ProcessExtract ==
    /\ out.pc = "extract"
    /\ out' = [out EXCEPT !.pc = "guard_text",
                          !.text = TextOf(out.file),
                          !.steps = Append(@, "extract")]
    /\ UNCHANGED <<index, documents, document_chunks, nqueries>>

\* document_processor.py:182-183
ProcessGuardText ==
    /\ out.pc = "guard_text"
    /\ out' = IF TextIsBlank(out.text)
              THEN Ended([out EXCEPT !.steps = Append(@, "guard_text")],
                         Failure("No text extracted from document"))
              ELSE [out EXCEPT !.pc = "chunk", !.steps = Append(@, "guard_text")]
    /\ UNCHANGED <<index, documents, document_chunks, nqueries>>

\* document_processor.py:186, and 204-205 when chunk_text raises
ProcessChunk ==
    /\ out.pc = "chunk"
    /\ out' = IF out.fault = "chunk"
              THEN Ended([out EXCEPT !.steps = Append(@, "chunk")],
                         Failure("SplitterError"))
              ELSE [out EXCEPT !.pc = "guard_chunks", !.chunks = out.split,
                               !.steps = Append(@, "chunk")]
    /\ UNCHANGED <<index, documents, document_chunks, nqueries>>

\* document_processor.py:187-188
ProcessGuardChunks ==
    /\ out.pc = "guard_chunks"
    /\ out' = IF NoChunks(out.chunks)
              THEN Ended([out EXCEPT !.steps = Append(@, "guard_chunks")],
                         Failure("No chunks created from text"))
              ELSE [out EXCEPT !.pc = "embed", !.steps = Append(@, "guard_chunks")]
    /\ UNCHANGED <<index, documents, document_chunks, nqueries>>

\* document_processor.py:191, and 204-205 when it raises
ProcessEmbed ==
    /\ out.pc = "embed"
    /\ out' = IF out.fault = "embed"
              THEN Ended([out EXCEPT !.steps = Append(@, "embed")],
                         Failure("MemoryError"))
              ELSE [out EXCEPT !.pc = "upsert",
                               !.embeddings = create_simple_embeddings(out.chunks),
                               !.steps = Append(@, "embed")]
    /\ UNCHANGED <<index, documents, document_chunks, nqueries>>

\* document_processor.py:194-203: store_embeddings (96-127) builds the batch
\* and calls index.upsert once
ProcessUpsert ==
    /\ out.pc = "upsert"
    /\ LET batch == vectors_to_upsert(out.embeddings, out.chunks, out.document_id,
                                      out.uuids)
           called == [out EXCEPT !.steps = Append(@, "upsert"),
                                 !.upserted = Append(@, batch)]
       IN  IF out.fault = "upsert"
           THEN /\ out' = Ended(called, Failure("PineconeException"))
                /\ UNCHANGED index
           ELSE /\ out' = Ended(called,
                                Success(out.text, out.chunks,
                                        [i \in 1..Len(batch) |-> batch[i].id]))
                /\ index' = Upsert(index, batch)
    /\ UNCHANGED <<documents, document_chunks, nqueries>>

NextProcess ==
    \/ ProcessBegin
    \/ ProcessExtract
    \/ ProcessGuardText
    \/ ProcessChunk
    \/ ProcessGuardChunks
    \/ ProcessEmbed
    \/ ProcessUpsert

SpecProcess == InitProcess /\ [][NextProcess]_vars

\* the steps of the ingest flow, in order
FLOW == <<"extract", "guard_text", "chunk", "guard_chunks", "embed", "upsert">>

\* the call has started
InCall == out.pc # "idle"

\* C24: the steps of process_document run in the order extract, text guard,
\* chunk, chunk-list guard, embed, upsert; index.upsert is called at most
\* once, with one batch of all the chunks and after both guards passed; an
\* empty chunk list ends the call with success false and no upsert; the
\* call ends as process_document of the endpoints' model does
C24_IngestStepOrder ==
    InCall =>
        /\ Len(out.steps) <= Len(FLOW)
        /\ out.steps = SubSeq(FLOW, 1, Len(out.steps))
        /\ Len(out.upserted) <= 1
        /\ out.upserted # <<>> =>
              /\ ~TextIsBlank(out.text)
              /\ out.chunks # <<>>
              /\ Len(out.upserted[1]) = Len(out.chunks)
              /\ \A i \in 1..Len(out.chunks) :
                    out.upserted[1][i].metadata.text = out.chunks[i]
        /\ out.upserted = <<>> => index = <<>>
        /\ (out.pc = "done" /\ Len(out.steps) >= 4 /\ out.chunks = <<>>) =>
              /\ ~out.result.success
              /\ out.upserted = <<>>
        /\ out.pc = "done" =>
              LET done == process_document(out.file, out.document_id, <<>>, out.split,
                                           out.uuids, out.fault)
              IN  /\ out.result = done.result.v
                  /\ index = done.index
                  /\ Len(out.upserted) = done.upserts

\* a call that went through every step and stored three chunks in one batch
C24_Witness ==
    /\ InCall
    /\ out.pc = "done"
    /\ out.steps = FLOW
    /\ out.result.success
    /\ Len(out.chunks) = 3
    /\ Len(index) = 3

(***************************************************************************)
(* The lightweight embedding strategies, as functions of the text.  A text *)
(* is the sequence of the code points of its characters; a component of a  *)
(* vector is kept as its numerator (ord(char) of ord(char) / 127.0, the    *)
(* byte of byte / 255.0).                                                  *)
(***************************************************************************)
\* the longest text of short texts, and the largest code point of the long one
MaxEmbedLen == 2
MaxCode == 420

\* document_processor.py:90-91
SIMPLE_DIMENSION == 384
\* document_processor.py:30: the dimension the index is created with
INDEX_DIMENSION == 384
\* simple_document_processor.py:68-71
HASH_DIMENSION == 768
\* the bytes of an md5 digest: simple_document_processor.py:58-65
DIGEST_BYTES == 16

\* str.lower() on one code point
lower_code(c) == IF c >= 65 /\ c <= 90 THEN c + 32 ELSE c

\* list(set(...)): the order in which a run of the program iterates over a
\* set of characters.  It follows the hashes of the strings, which are
\* salted anew in every run; seed stands for the salt of the run
SetOrder(S, seed) ==
    LET ascending == SelectSeq([i \in 1..MaxCode |-> i], LAMBDA c : c \in S)
    IN  IF seed = "asc" THEN ascending ELSE Reverse(ascending)

\* a faulty embedding that takes every distinct character; C25 tells it from
\* create_simple_embedding_vector
create_simple_embedding_unbounded(text, seed) ==
    LET chars == SetOrder({lower_code(text[i]) : i \in 1..Len(text)}, seed)
    IN  [i \in 1..(IF Len(chars) > SIMPLE_DIMENSION THEN Len(chars)
                   ELSE SIMPLE_DIMENSION) |->
            IF i <= Len(chars) THEN chars[i] ELSE 0]

\* document_processor.py:89-93, the vector of one text in a run whose hash
\* salt is seed
create_simple_embedding_vector(text, seed) ==
    LET chars == Prefix(SetOrder({lower_code(text[i]) : i \in 1..Len(text)}, seed),
                        SIMPLE_DIMENSION)
    IN  [i \in 1..SIMPLE_DIMENSION |-> IF i <= Len(chars) THEN chars[i] ELSE 0]

\* hashlib.md5(text.encode()).hexdigest(), read two hex digits at a time: a
\* fixed function of the text to DIGEST_BYTES bytes (a stand-in that mixes
\* the length and the first DIGEST_BYTES code points)
Md5Bytes(text) ==
    [i \in 1..DIGEST_BYTES |->
        (31 * Len(text) + 7 * i + (IF i <= Len(text) THEN 13 * text[i] ELSE 0)) % 256]

\* DocumentProcessor.create_embeddings: simple_document_processor.py:54-71
create_embeddings(text) ==
    LET embedding == Md5Bytes(text)
        padded == embedding \o [i \in 1..(IF Len(embedding) < HASH_DIMENSION
                                          THEN HASH_DIMENSION - Len(embedding)
                                          ELSE 0) |-> 0]
    IN  Prefix(padded, HASH_DIMENSION)

\* the code points of the short texts: space, A, a, b
EMBED_CODES == {32, 65, 97, 98}

\* the texts embedded: every short text, and one with more distinct
\* characters than a vector has components
LONG_TEXT == [i \in 1..MaxCode |-> i]
EMBED_TEXTS ==
    UNION {[1..n -> EMBED_CODES] : n \in 0..MaxEmbedLen} \cup {LONG_TEXT}

\* the hash salts of two runs of the program
HASH_SEEDS == {"asc", "desc"}

InitEmbed ==
    /\ index = <<>>
    /\ documents = <<>>
    /\ document_chunks = <<>>
    /\ nqueries = 0
    /\ out = [op |-> "idle"]

\* create_simple_embeddings([text]) called twice in one run, when a passage
\* is stored, and once more in another run, when a query repeats its text
CreateSimpleEmbeddings ==
    /\ out.op = "idle"
    /\ \E text \in EMBED_TEXTS, seed \in HASH_SEEDS, later_seed \in HASH_SEEDS :
          out' = [op |-> "create_simple_embeddings", text |-> text, seed |-> seed,
                  later_seed |-> later_seed,
                  stored |-> create_simple_embedding_vector(text, seed),
                  again |-> create_simple_embedding_vector(text, seed),
                  query |-> create_simple_embedding_vector(text, later_seed)]
    /\ UNCHANGED <<index, documents, document_chunks, nqueries>>

\* create_embeddings(text) of simple_document_processor.py, in the same way;
\* it reads nothing of the run
CreateEmbeddings ==
    /\ out.op = "idle"
    /\ \E text \in EMBED_TEXTS :
          out' = [op |-> "create_embeddings", text |-> text,
                  stored |-> create_embeddings(text),
                  again |-> create_embeddings(text),
                  query |-> create_embeddings(text)]
    /\ UNCHANGED <<index, documents, document_chunks, nqueries>>

NextEmbed ==
    \/ CreateSimpleEmbeddings
    \/ CreateEmbeddings

SpecEmbed == InitEmbed /\ [][NextEmbed]_vars

\* a text was embedded
Embedded == out.op # "idle"

\* the distinct characters of the lower-cased text
DistinctChars == {lower_code(out.text[i]) : i \in 1..Len(out.text)}

\* C25: every vector has the dimension of its strategy, 384 for
\* create_simple_embeddings and 768 for create_embeddings, and the vectors of
\* DocumentProcessor have the dimension the index is created with
C25_EmbeddingDimension ==
    /\ SIMPLE_DIMENSION = INDEX_DIMENSION
    /\ out.op = "create_simple_embeddings" =>
          \A v \in {out.stored, out.again, out.query} : Len(v) = INDEX_DIMENSION
    /\ out.op = "create_embeddings" =>
          \A v \in {out.stored, out.again, out.query} : Len(v) = HASH_DIMENSION

\* a text with more distinct characters than the vector has components
C25_Witness ==
    /\ out.op = "create_simple_embeddings"
    /\ Cardinality(DistinctChars) > SIMPLE_DIMENSION
    /\ Len(out.stored) = SIMPLE_DIMENSION
    /\ out.stored[SIMPLE_DIMENSION] # 0

\* C26: the same text is embedded to the same vector every time, in one run
\* and in different runs
C26_EmbeddingDeterministic ==
    Embedded => (out.again = out.stored /\ out.query = out.stored)

(***************************************************************************)
(* The preview of a passage in a fallback Decision.                        *)
(***************************************************************************)
\* make_decision has answered with the fallback Decision built from passages
FellBackOnPassages ==
    /\ out.op = "make_decision"
    /\ out.clauses # <<>>
    /\ out.result.path = "fallback"

\* the text shown in the i-th justification entry
Shown(i) == PyGet(PyGet(out.result.v, <<"justification">>).v[i], <<"text">>).v

\* C27: the text of a fallback justification entry is the passage itself
\* when the passage has at most 200 characters, and its first 200 characters
\* followed by the ellipsis marker when it is longer: the marker is added
\* exactly when the passage was cut
C27_PreviewTruncation ==
    FellBackOnPassages =>
        \A i \in 1..Len(PyGet(out.result.v, <<"justification">>).v) :
            LET passage == out.clauses[i].text
            IN  /\ Len(passage) <= PREVIEW_LEN => Shown(i) = passage
                /\ Len(passage) > PREVIEW_LEN =>
                      Shown(i) = SubSeq(passage, 1, PREVIEW_LEN) \o ELLIPSIS
                /\ (Len(Shown(i)) = PREVIEW_LEN + Len(ELLIPSIS))
                      <=> (Len(passage) > PREVIEW_LEN)
                /\ (Shown(i) # passage) <=> (Len(passage) > PREVIEW_LEN)

\* a fallback over a passage one character longer than the preview
C27_Witness ==
    /\ FellBackOnPassages
    /\ Len(out.clauses[1].text) = PREVIEW_LEN + 1
    /\ Len(Shown(1)) = PREVIEW_LEN + 3
    /\ Shown(1)[PREVIEW_LEN + 1] = "."

(***************************************************************************)
(* Requests that fail validation.                                          *)
(***************************************************************************)
\* the request fails the validation of its handler
FailsValidation ==
    \/ out.op = "process_query" /\ ~Truthy(out.request.query)
    \/ /\ out.op = "upload_document_from_url"
       /\ (~Truthy(out.request.url) \/ ~HasSchemeAndHost(out.request.url.v))

\* no collaborator was called for the request
NothingCalled ==
    IF out.op = "process_query" THEN out.calls = <<>>
    ELSE out.result.kind = "none" /\ out.upserts = 0 /\ out.writes = <<>>

\* C28: process_query and upload_document_from_url answer a request that
\* fails validation with status 400, without calling anything
C28_ValidationIs400 ==
    FailsValidation => (out.response.status_code = 400 /\ NothingCalled)

(***************************************************************************)
(* upload_document and upload_document_from_url of main.py, commit by      *)
(* commit.  documents and document_chunks are the committed tables, index  *)
(* the vector index; out is the frame of the request in flight.            *)
(***************************************************************************)
\* what the last db.commit() of the handler does: it commits, or it raises
\* and the session rolls back
DB_FAULTS == {"none", "commit_chunks"}

\* the upload handlers; upload_document_from_url is taken from the point
\* where the download has succeeded
UPLOAD_OPS == {"upload_document", "upload_document_from_url"}

InitCommit ==
    /\ index = <<>>
    /\ documents = <<>>
    /\ document_chunks = <<>>
    /\ nqueries = 0
    /\ out = [pc |-> "idle"]

\* main.py:73-81 and 158-166: the Document row is committed as pending
CommitPending ==
    /\ out.pc = "idle"
    /\ Len(documents) < MaxDocs
    /\ \E op \in UPLOAD_OPS, file \in URL_FILES, fault \in FAULTS, db_fault \in DB_FAULTS :
         \E chunks \in ChunkOutcomes(TextOf(file)) :
            /\ documents' = Append(documents, [processed |-> "pending"])
            /\ out' = [pc |-> "process", op |-> op, file |-> file, chunks |-> chunks,
                       fault |-> fault, db_fault |-> db_fault,
                       id |-> Len(documents) + 1, result |-> Failure("")]
    /\ UNCHANGED <<index, document_chunks, nqueries>>

\* main.py:84-86 and 169: process_document
CallProcessDocument ==
    /\ out.pc = "process"
    /\ LET done == process_document(out.file, out.id, index, out.chunks,
                                    CHOOSE u \in UUID_DRAWS : TRUE, out.fault)
       IN  /\ index' = done.index
           /\ out' = [out EXCEPT !.pc = "status", !.result = done.result.v]
    /\ UNCHANGED <<documents, document_chunks, nqueries>>

\* main.py:88-92 and 112-117 (171-175 and 193-198): the status of the
\* Document is committed
CommitStatus ==
    /\ out.pc = "status"
    /\ documents' = [documents EXCEPT ![out.id].processed =
                        IF out.result.success THEN "processed" ELSE "failed"]
    /\ out' = IF out.result.success THEN [out EXCEPT !.pc = "rows"] ELSE [pc |-> "idle"]
    /\ UNCHANGED <<index, document_chunks, nqueries>>

\* main.py:94-100 (177-183): the DocumentChunk rows are added and committed,
\* or the commit raises and the handler answers 500 (119-120, 204-205)
CommitChunks ==
    /\ out.pc = "rows"
    /\ document_chunks' =
          IF out.db_fault = "commit_chunks" THEN document_chunks
          ELSE document_chunks \o [i \in 1..Len(out.result.vector_ids) |->
                                      [document_id |-> out.id, chunk_index |-> i - 1,
                                       embedding_id |-> out.result.vector_ids[i]]]
    /\ out' = [pc |-> "idle"]
    /\ UNCHANGED <<index, documents, nqueries>>

NextCommit ==
    \/ CommitPending
    \/ CallProcessDocument
    \/ CommitStatus
    \/ CommitChunks

SpecCommit == InitCommit /\ [][NextCommit]_vars

\* the rows of document_chunks of document d, in order
RECURSIVE RowsOf(_, _)
RowsOf(rows, d) ==
    IF rows = <<>> THEN <<>>
    ELSE IF Head(rows).document_id = d THEN <<Head(rows)>> \o RowsOf(Tail(rows), d)
    ELSE RowsOf(Tail(rows), d)

\* C29: in every committed state a processed Document has one DocumentChunk
\* row per vector indexed for it, row i holding the id of vector i
C29_ChunkRowsMatchVectors ==
    \A d \in 1..Len(documents) :
        documents[d].processed = "processed" =>
            LET vectors == WithDocument(index, d)
                rows == RowsOf(document_chunks, d)
            IN  /\ Len(rows) = Len(vectors)
                /\ \A i \in 1..Len(rows) :
                      /\ rows[i].chunk_index = i - 1
                      /\ rows[i].embedding_id = vectors[i].id

(***************************************************************************)
(* The Authorization header of /hackrx/run of main.py.                     *)
(***************************************************************************)
\* a request to /hackrx/run of main.py, in either format, was answered
RanHackrx == out.op \in {"hackrx_run_endpoint", "hackrx_official_compliance_endpoint"}

\* the header is not the expected bearer token
BadToken == out.authorization # PyStr(<<EXPECTED_TOKEN>>)

\* C30: /hackrx/run of main.py rejects a request without the expected
\* bearer token before it calls the language model, the index or the
\* download
C30_TokenBeforeProcessing ==
    (RanHackrx /\ BadToken) =>
        /\ out.calls = <<>>
        /\ out.response.status_code = 401

====
